---- MODULE Spec2Model ----
(***************************************************************************)
(* zep: a text template rendered against the process environment.          *)
(*                                                                         *)
(* A Go string is modelled as a sequence of one-character strings, so that *)
(* splitting, trimming, case folding and number parsing are computed the   *)
(* way the library routines compute them.  An accessor's outcome is a      *)
(* record: [ok |-> TRUE, val |-> v] for a return, and                      *)
(* [ok |-> FALSE, err |-> e] for a panic(fmt.Errorf(...)), e holding the   *)
(* format string and its arguments.                                        *)
(***************************************************************************)
EXTENDS Integers, Sequences, FiniteSets, TLC

VARIABLES
  env,        \* the Environment (map[string]string): a function key -> value
  call,       \* the accessor call evaluated last, with its outcome
  pc,         \* position of Run / RenderTemplate
  args,       \* Run's args
  environ,    \* Run's environ list
  idx,        \* index of the next environ entry of the loop of Run
  envMap,     \* the map Run fills
  tmpl,       \* the template content read / the parsed template
  funcs,      \* the template.FuncMap bound into the template: name -> callable
  node,       \* index of the next node Execute evaluates
  buf,        \* bytes.Buffer of RenderTemplate
  rt,         \* what RenderTemplate returned: [text, err], or NoReturn
  output,     \* the string Run returns
  err,        \* the error Run returns (NoErr: nil)
  fs,         \* the file system: path -> file (NoEntry: no such file)
  umask,      \* the process's file mode creation mask: the permission bits it clears
  syscalls,   \* the file system calls of the utility called last, in order
  stdout,     \* what main wrote to os.Stdout
  stderr,     \* what main, or the runtime on a panic, wrote to os.Stderr
  exit        \* the exit status of the process (Running: it has not exited)

vars == <<env, call, pc, args, environ, idx, envMap, tmpl, funcs, node, buf, rt, output, err,
          fs, umask, syscalls, stdout, stderr, exit>>

osVars == <<fs, umask, syscalls>>

ioVars == <<stdout, stderr, exit>>

runVars == <<pc, args, environ, idx, envMap, tmpl, funcs, node, buf, rt, output, err,
             osVars, ioVars>>

-----------------------------------------------------------------------------
(* Characters and the strings package                                      *)

UpperChars == <<"A","B","C","D","E","F","G","H","I","J","K","L","M",
                "N","O","P","Q","R","S","T","U","V","W","X","Y","Z">>

LowerChars == <<"a","b","c","d","e","f","g","h","i","j","k","l","m",
                "n","o","p","q","r","s","t","u","v","w","x","y","z">>

DigitChars == <<"0","1","2","3","4","5","6","7","8","9">>

Range(f) == {f[i] : i \in DOMAIN f}

IsUpper(c) == c \in Range(UpperChars)

IsLower(c) == c \in Range(LowerChars)

IsLetter(c) == IsUpper(c) \/ IsLower(c)

IsDigit(c) == c \in Range(DigitChars)

DigitVal(c) == (CHOOSE i \in 1..10 : DigitChars[i] = c) - 1

\* unicode.IsSpace on the Latin-1 white space the model's strings can hold
IsSpace(c) == c \in {" ", "\t", "\n", "\r"}

ToLowerChar(c) ==
  IF IsUpper(c) THEN LowerChars[CHOOSE i \in 1..26 : UpperChars[i] = c] ELSE c

ToLower(s) == [i \in 1..Len(s) |-> ToLowerChar(s[i])]

\* s[from..to], 1-based and inclusive; empty when from > to
Slice(s, from, to) == IF from > to THEN <<>> ELSE SubSeq(s, from, to)

HasPrefixAt(s, i, p) ==
  /\ i + Len(p) - 1 <= Len(s)
  /\ \A j \in 1..Len(p) : s[i + j - 1] = p[j]

HasPrefix(s, p) == HasPrefixAt(s, 1, p)

\* strings.Index, 1-based; 0 when sep does not occur
Index(s, sep) ==
  IF \E i \in 1..(Len(s) + 1) : HasPrefixAt(s, i, sep)
  THEN CHOOSE i \in 1..(Len(s) + 1) :
         /\ HasPrefixAt(s, i, sep)
         /\ \A j \in 1..(i - 1) : ~HasPrefixAt(s, j, sep)
  ELSE 0

\* strings.Split: sep empty explodes into characters; otherwise the pieces
\* between successive non-overlapping occurrences, found left to right
RECURSIVE Split(_, _)
Split(s, sep) ==
  IF Len(sep) = 0
  THEN [i \in 1..Len(s) |-> <<s[i]>>]
  ELSE LET i == Index(s, sep)
       IN IF i = 0 THEN <<s>>
          ELSE <<Slice(s, 1, i - 1)>> \o Split(Slice(s, i + Len(sep), Len(s)), sep)

\* strings.SplitN(s, sep, 2) for a non-empty sep
SplitN2(s, sep) ==
  LET i == Index(s, sep)
  IN IF i = 0 THEN <<s>>
     ELSE <<Slice(s, 1, i - 1), Slice(s, i + Len(sep), Len(s))>>

\* strings.TrimLeft / TrimRight / Trim with a cut set (a string of characters)
TrimLeft(s, cutset) ==
  LET keep == {i \in 1..Len(s) : s[i] \notin Range(cutset)}
  IN IF keep = {} THEN <<>>
     ELSE Slice(s, CHOOSE i \in keep : \A j \in keep : i <= j, Len(s))

TrimRight(s, cutset) ==
  LET keep == {i \in 1..Len(s) : s[i] \notin Range(cutset)}
  IN IF keep = {} THEN <<>>
     ELSE Slice(s, 1, CHOOSE i \in keep : \A j \in keep : i >= j)

Trim(s, cutset) == TrimRight(TrimLeft(s, cutset), cutset)

\* strings.TrimSpace
TrimSpace(s) ==
  LET keep == {i \in 1..Len(s) : ~IsSpace(s[i])}
  IN IF keep = {} THEN <<>>
     ELSE Slice(s, CHOOSE i \in keep : \A j \in keep : i <= j,
                   CHOOSE i \in keep : \A j \in keep : i >= j)

-----------------------------------------------------------------------------
(* Outcomes                                                                *)

Ok(v) == [ok |-> TRUE, val |-> v]

\* panic(fmt.Errorf(format, a...)) : the format and its arguments
Panic(format, a) == [ok |-> FALSE, err |-> [format |-> format, a |-> a]]

-----------------------------------------------------------------------------
(* strconv                                                                 *)

\* The largest int.  Go's int has the platform's width; the model takes the
\* 32-bit platform.
IntMax == 2147483647

\* The value of a digit string folded left to right from acc; -1 stands for
\* IntMax + 1 exactly and -2 for anything larger.
RECURSIVE Magnitude(_, _)
Magnitude(ds, acc) ==
  IF Len(ds) = 0 THEN acc
  ELSE LET d == DigitVal(Head(ds))
           nxt == IF acc < 0 THEN -2
                  ELSE IF acc > (IntMax - d) \div 10
                       THEN IF acc = IntMax \div 10 /\ d = (IntMax % 10) + 1
                            THEN -1 ELSE -2
                       ELSE acc * 10 + d
       IN Magnitude(Tail(ds), nxt)

NumError(fn, num, e) == [ok |-> FALSE, err |-> [func |-> fn, num |-> num, err |-> e]]

\* strconv.Atoi: an optional sign, then one or more decimal digits, within int.
Atoi(s) ==
  LET signed == Len(s) > 0 /\ s[1] \in {"+", "-"}
      neg == Len(s) > 0 /\ s[1] = "-"
      ds == IF signed THEN Tail(s) ELSE s
  IN IF Len(ds) = 0 \/ \E i \in 1..Len(ds) : ~IsDigit(ds[i])
     THEN NumError("Atoi", s, "invalid syntax")
     ELSE LET m == Magnitude(ds, 0)
          IN IF m >= 0 THEN Ok(IF neg THEN -m ELSE m)
             ELSE IF m = -1 /\ neg THEN Ok(-IntMax - 1)
             ELSE NumError("Atoi", s, "value out of range")

\* A float64 value: NaN, an infinity, or a decimal 0.d1d2...dn * 10^dp held as
\* its digits (no leading and no trailing zero; zero has no digit and dp 0)
\* and the position dp of the decimal point.  Rounding to the nearest float64
\* is not modelled.
NaN == [kind |-> "nan"]

Inf(neg) == [kind |-> "inf", neg |-> neg]

RECURSIVE Decimal(_, _, _)
Decimal(neg, digits, dp) ==
  IF Len(digits) = 0 THEN [kind |-> "num", neg |-> neg, digits |-> <<>>, dp |-> 0]
  ELSE IF digits[Len(digits)] = 0 THEN Decimal(neg, Slice(digits, 1, Len(digits) - 1), dp)
  ELSE [kind |-> "num", neg |-> neg, digits |-> digits, dp |-> dp]

\* the leading digits of 2^1024 - 2^970 = 0.17976931348623158079...e309, the
\* least magnitude that rounds to an infinity
HugeDigits == <<1,7,9,7,6,9,3,1,3,4,8,6,2,3,1,5,8,0,7,9>>

\* digit sequence a, padded with zeros, is above HugeDigits
AboveHuge(a) ==
  \E i \in 1..Len(HugeDigits) :
    /\ \A j \in 1..(i - 1) : j <= Len(a) /\ a[j] = HugeDigits[j]
    /\ i <= Len(a) /\ a[i] > HugeDigits[i]

\* whether a decimal rounds to +-Inf in float64
Overflows(d) ==
  /\ Len(d.digits) # 0
  /\ \/ d.dp > 309
     \/ d.dp = 309 /\ AboveHuge(d.digits)

\* strconv.special: [+-]inf, [+-]infinity and nan, in any case
Special(s) ==
  LET signed == Len(s) > 0 /\ s[1] \in {"+", "-"}
      rest == ToLower(IF signed THEN Tail(s) ELSE s)
  IN IF rest \in {<<"i","n","f">>, <<"i","n","f","i","n","i","t","y">>}
     THEN Ok(Inf(Len(s) > 0 /\ s[1] = "-"))
     ELSE IF ~signed /\ rest = <<"n","a","n">> THEN Ok(NaN)
     ELSE [ok |-> FALSE]

\* strconv.readFloat on decimal numerals (the model's strings hold no '_' and
\* no 0x prefix).  The scan state: i the next position, nd the digits counted
\* after the leading zeros, dp the decimal point's position among them.
RECURSIVE ReadMantissa(_, _, _)
ReadMantissa(s, i, st) ==
  IF i > Len(s) THEN [st EXCEPT !.i = i]
  ELSE IF s[i] = "."
       THEN IF st.sawdot THEN [st EXCEPT !.i = i]
            ELSE ReadMantissa(s, i + 1, [st EXCEPT !.sawdot = TRUE, !.dp = st.nd])
  ELSE IF IsDigit(s[i])
       THEN IF s[i] = "0" /\ st.nd = 0
            THEN ReadMantissa(s, i + 1, [st EXCEPT !.sawdigits = TRUE, !.dp = st.dp - 1])
            ELSE ReadMantissa(s, i + 1,
                   [st EXCEPT !.sawdigits = TRUE, !.nd = st.nd + 1,
                              !.mant = Append(st.mant, DigitVal(s[i]))])
  ELSE [st EXCEPT !.i = i]

\* the exponent's digits from position i: [i |-> the position after them, e |-> value]
RECURSIVE ReadExponent(_, _, _)
ReadExponent(s, i, e) ==
  IF i <= Len(s) /\ IsDigit(s[i])
  THEN ReadExponent(s, i + 1, IF e < 10000 THEN e * 10 + DigitVal(s[i]) ELSE e)
  ELSE [i |-> i, e |-> e]

\* strconv.ParseFloat(s, 64)
ParseFloat(s) ==
  LET sp == Special(s)
      signed == Len(s) > 0 /\ s[1] \in {"+", "-"}
      neg == Len(s) > 0 /\ s[1] = "-"
      m == ReadMantissa(s, IF signed THEN 2 ELSE 1,
             [i |-> 0, sawdot |-> FALSE, sawdigits |-> FALSE, nd |-> 0, dp |-> 0, mant |-> <<>>])
      dp0 == IF m.sawdot THEN m.dp ELSE m.nd
      hasExp == m.i <= Len(s) /\ s[m.i] \in {"e", "E"}
      esigned == hasExp /\ m.i + 1 <= Len(s) /\ s[m.i + 1] \in {"+", "-"}
      eneg == esigned /\ s[m.i + 1] = "-"
      estart == IF esigned THEN m.i + 2 ELSE m.i + 1
      ex == ReadExponent(s, estart, 0)
      syntax == NumError("ParseFloat", s, "invalid syntax")
  IN IF sp.ok THEN sp
     ELSE IF ~m.sawdigits THEN syntax
     ELSE IF hasExp /\ ex.i = estart THEN syntax
     ELSE IF (IF hasExp THEN ex.i ELSE m.i) # Len(s) + 1 THEN syntax
     ELSE LET dp == IF hasExp THEN dp0 + (IF eneg THEN -ex.e ELSE ex.e) ELSE dp0
              d == Decimal(neg, m.mant, dp)
          IN IF Overflows(d) THEN NumError("ParseFloat", s, "value out of range")
             ELSE Ok(d)

-----------------------------------------------------------------------------
(* net/url, on strings that hold no '%', '#', '[' or non-ASCII character   *)

MinOf(S) == CHOOSE i \in S : \A j \in S : i <= j

MaxOf(S) == CHOOSE i \in S : \A j \in S : i >= j

\* strings.LastIndex for a one-character sep, 1-based; 0 when absent
LastIndexChar(s, c) ==
  LET at == {i \in 1..Len(s) : s[i] = c}
  IN IF at = {} THEN 0 ELSE MaxOf(at)

CountChar(s, c) == Cardinality({i \in 1..Len(s) : s[i] = c})

\* stringContainsCTLByte: a byte below ' ' (or 0x7f)
ContainsCTL(s) == \E i \in 1..Len(s) : s[i] \in {"\t", "\n", "\r"}

UrlError(raw, e) == [ok |-> FALSE, err |-> [op |-> "parse", url |-> raw, err |-> e]]

\* url.getScheme: the letters (then digits, '+', '-', '.') before the first ':'
GetScheme(raw) ==
  LET stop == {i \in 1..Len(raw) :
                 ~(\/ IsLetter(raw[i])
                   \/ i > 1 /\ (IsDigit(raw[i]) \/ raw[i] \in {"+", "-", "."}))}
      none == [ok |-> TRUE, scheme |-> <<>>, rest |-> raw]
  IN IF stop = {} THEN none
     ELSE LET i == MinOf(stop)
          IN IF raw[i] # ":" THEN none
             ELSE IF i = 1 THEN [ok |-> FALSE, err |-> "missing protocol scheme"]
             ELSE [ok |-> TRUE, scheme |-> Slice(raw, 1, i - 1),
                   rest |-> Slice(raw, i + 1, Len(raw))]

\* url.validOptionalPort: empty, or ':' followed by digits only
ValidOptionalPort(port) ==
  \/ Len(port) = 0
  \/ port[1] = ":" /\ \A i \in 2..Len(port) : IsDigit(port[i])

\* url.shouldEscape(c, encodeHost) on the model's characters
HostCharOk(c) ==
  \/ IsLetter(c) \/ IsDigit(c)
  \/ c \in {"!", "$", "&", "'", "(", ")", "*", "+", ",", ";", "=", ":", "<", ">",
            "-", "_", ".", "~"}

\* url.parseHost, i being the index of the host's last ':' (0: none)
ParseHostAt(host, i) ==
  IF i # 0 /\ ~ValidOptionalPort(Slice(host, i, Len(host)))
  THEN [ok |-> FALSE, err |-> "invalid port after host"]
  ELSE IF \E j \in 1..Len(host) : ~HostCharOk(host[j])
  THEN [ok |-> FALSE, err |-> "invalid character in host name"]
  ELSE [ok |-> TRUE, host |-> host]

ParseHost(host) == ParseHostAt(host, LastIndexChar(host, ":"))

\* url.validUserinfo
UserinfoCharOk(c) ==
  \/ IsLetter(c) \/ IsDigit(c)
  \/ c \in {"-", ".", "_", ":", "~", "!", "$", "&", "'", "(", ")", "*", "+", ",",
            ";", "=", "%", "@"}

\* url.parseAuthority once the host h is parsed: the userinfo before the '@'
WithUserinfo(h, hasUser, userinfo) ==
  IF ~h.ok THEN h
  ELSE IF ~hasUser THEN [ok |-> TRUE, host |-> h.host, hasUser |-> FALSE, user |-> <<>>]
  ELSE IF \E j \in 1..Len(userinfo) : ~UserinfoCharOk(userinfo[j])
  THEN [ok |-> FALSE, err |-> "net/url: invalid userinfo"]
  ELSE [ok |-> TRUE, host |-> h.host, hasUser |-> TRUE, user |-> userinfo]

\* url.parseAuthority: [userinfo "@"] host, i being the index of the last '@'
ParseAuthorityAt(authority, i) ==
  WithUserinfo(ParseHost(Slice(authority, i + 1, Len(authority))), i # 0,
               Slice(authority, 1, i - 1))

ParseAuthority(authority) == ParseAuthorityAt(authority, LastIndexChar(authority, "@"))

NoURL == [Scheme |-> <<>>, Opaque |-> <<>>, hasUser |-> FALSE, User |-> <<>>,
          Host |-> <<>>, Path |-> <<>>, ForceQuery |-> FALSE, RawQuery |-> <<>>,
          OmitHost |-> FALSE]

\* url.parse: the query is cut off at the first '?' (at q; 0: none); a lone
\* trailing '?' only forces the query
CutQueryAt(rest, q) ==
  IF q # 0 /\ q = Len(rest) /\ CountChar(rest, "?") = 1
  THEN [rest |-> Slice(rest, 1, Len(rest) - 1), force |-> TRUE, query |-> <<>>]
  ELSE IF q = 0 THEN [rest |-> rest, force |-> FALSE, query |-> <<>>]
  ELSE [rest |-> Slice(rest, 1, q - 1), force |-> FALSE,
        query |-> Slice(rest, q + 1, Len(rest))]

CutQuery(rest) == CutQueryAt(rest, Index(rest, <<"?">>))

\* url.parse: what follows "//" is the authority up to the next '/' (at i)
SplitAuthorityAt(a, i) ==
  IF i = 0 THEN [authority |-> a, path |-> <<>>]
  ELSE [authority |-> Slice(a, 1, i - 1), path |-> Slice(a, i, Len(a))]

SplitAuthority(a) == SplitAuthorityAt(a, Index(a, <<"/">>))

\* url.parse: the URL u with the authority au and the path set
SetAuthority(raw, u, au, path) ==
  IF ~au.ok THEN UrlError(raw, au.err)
  ELSE Ok([u EXCEPT !.hasUser = au.hasUser, !.User = au.user,
                    !.Host = au.host, !.Path = path])

SetAuthorityPath(raw, u, sp) == SetAuthority(raw, u, ParseAuthority(sp.authority), sp.path)

\* url.parse after the scheme and the query are split off
ParseRest(raw, u, rest) ==
  IF ~HasPrefix(rest, <<"/">>)
  THEN IF Len(u.Scheme) # 0 THEN Ok([u EXCEPT !.Opaque = rest])
       ELSE UrlError(raw, "invalid URI for request")
  ELSE IF Len(u.Scheme) # 0 /\ HasPrefix(rest, <<"/", "/">>)
  THEN SetAuthorityPath(raw, u, SplitAuthority(Slice(rest, 3, Len(rest))))
  ELSE Ok([u EXCEPT !.OmitHost = Len(u.Scheme) # 0, !.Path = rest])

ParseQuery(raw, scheme, c) ==
  ParseRest(raw, [NoURL EXCEPT !.Scheme = scheme, !.ForceQuery = c.force,
                               !.RawQuery = c.query], c.rest)

ParseScheme(raw, sc) ==
  IF ~sc.ok THEN UrlError(raw, sc.err)
  ELSE ParseQuery(raw, ToLower(sc.scheme), CutQuery(sc.rest))

\* url.ParseRequestURI = url.parse(rawURL, viaRequest = true)
ParseRequestURI(raw) ==
  IF ContainsCTL(raw) THEN UrlError(raw, "net/url: invalid control character in URL")
  ELSE IF Len(raw) = 0 THEN UrlError(raw, "empty url")
  ELSE IF raw = <<"*">> THEN Ok([NoURL EXCEPT !.Path = raw])
  ELSE ParseScheme(raw, GetScheme(raw))

\* url.escape(path, encodePath) on the model's characters: a space is escaped
RECURSIVE EscapePath(_)
EscapePath(p) ==
  IF Len(p) = 0 THEN <<>>
  ELSE (IF Head(p) = " " THEN <<"%", "2", "0">> ELSE <<Head(p)>>) \o EscapePath(Tail(p))

\* (*URL).String
URLString(u) ==
  LET schemePart == IF Len(u.Scheme) # 0 THEN u.Scheme \o <<":">> ELSE <<>>
      named == Len(u.Scheme) # 0 \/ Len(u.Host) # 0 \/ u.hasUser
      omit == u.OmitHost /\ Len(u.Host) = 0 /\ ~u.hasUser
      slashes == IF Len(u.Host) # 0 \/ Len(u.Path) # 0 \/ u.hasUser
                 THEN <<"/", "/">> ELSE <<>>
      userPart == IF u.hasUser THEN u.User \o <<"@">> ELSE <<>>
      authPart == IF named /\ ~omit THEN slashes \o userPart \o u.Host ELSE <<>>
      p == EscapePath(u.Path)
      sep == IF Len(p) # 0 /\ p[1] # "/" /\ Len(u.Host) # 0 THEN <<"/">> ELSE <<>>
      body == IF Len(u.Opaque) # 0 THEN u.Opaque ELSE authPart \o sep \o p
      queryPart == IF u.ForceQuery \/ Len(u.RawQuery) # 0
                   THEN <<"?">> \o u.RawQuery ELSE <<>>
  IN schemePart \o body \o queryPart

\* (*URL).Port: the digits after the host's last ':', when they form a port
PortAt(host, colon) ==
  IF colon # 0 /\ ValidOptionalPort(Slice(host, colon, Len(host)))
  THEN Slice(host, colon + 1, Len(host))
  ELSE <<>>

URLPort(u) == PortAt(u.Host, LastIndexChar(u.Host, ":"))

-----------------------------------------------------------------------------
(* Environment and its accessors                                           *)

\* NewEnvironment: the map itself, under the type Environment
NewEnvironment(m) == m

Has(e, key) == key \in DOMAIN e

NotFound(key) == Panic("environment variable '%s' not found", <<key>>)

PortMin == 1

PortMax == 65535

TrueWords == {<<"t","r","u","e">>, <<"1">>, <<"y","e","s">>, <<"o","n">>,
              <<"e","n","a","b","l","e">>, <<"e","n","a","b","l","e","d">>}

FalseWords == {<<"f","a","l","s","e">>, <<"0">>, <<"n","o">>, <<"o","f","f">>,
               <<"d","i","s","a","b","l","e">>, <<"d","i","s","a","b","l","e","d">>}

\* AsString that hands out the zero value for a missing key
AsStringZero(e, key) ==
  IF ~Has(e, key) THEN Ok(<<>>) ELSE Ok(e[key])

AsString(e, key) ==
  IF ~Has(e, key) THEN NotFound(key) ELSE Ok(e[key])

AsStringOr(e, key, defaultValue) ==
  IF ~Has(e, key) THEN Ok(defaultValue) ELSE Ok(e[key])

\* AsStringSlice that splits at the first delimiter only
AsStringSliceFirst(e, key, delimiter) ==
  IF ~Has(e, key) THEN NotFound(key) ELSE Ok(SplitN2(e[key], delimiter))

AsStringSlice(e, key, delimiter) ==
  IF ~Has(e, key) THEN NotFound(key) ELSE Ok(Split(e[key], delimiter))

AsStringSliceTrim(e, key, delimiter, trimChars) ==
  IF ~Has(e, key) THEN NotFound(key)
  ELSE LET elements == Split(e[key], delimiter)
       IN Ok([i \in 1..Len(elements) |-> Trim(elements[i], trimChars)])

\* AsBool that compares the raw value, without strings.ToLower
AsBoolCaseSensitive(e, key) ==
  IF ~Has(e, key) THEN NotFound(key)
  ELSE IF e[key] \in TrueWords THEN Ok(TRUE)
  ELSE IF e[key] \in FalseWords THEN Ok(FALSE)
  ELSE Panic("could not parse '%s' (value: '%s') as boolean", <<key, e[key]>>)

AsBool(e, key) ==
  IF ~Has(e, key) THEN NotFound(key)
  ELSE LET lowerValue == ToLower(e[key])
       IN IF lowerValue \in TrueWords THEN Ok(TRUE)
          ELSE IF lowerValue \in FalseWords THEN Ok(FALSE)
          ELSE Panic("could not parse '%s' (value: '%s') as boolean", <<key, e[key]>>)

AsBoolOr(e, key, defaultValue) ==
  IF ~Has(e, key) THEN Ok(defaultValue)
  ELSE LET lowerValue == ToLower(e[key])
       IN IF lowerValue \in TrueWords THEN Ok(TRUE)
          ELSE IF lowerValue \in FalseWords THEN Ok(FALSE)
          ELSE Ok(defaultValue)

\* AsURL, lines 122-125, u being what url.ParseRequestURI returned
URLResult(key, value, u) ==
  IF ~u.ok
  THEN Panic("could not parse '%s' (value: '%s') as URL: %v", <<key, value, u.err>>)
  ELSE IF Len(u.val.Scheme) = 0
  THEN Panic("could not parse '%s' (value: '%s') as URL: %v", <<key, value, "<nil>">>)
  ELSE Ok(URLString(u.val))

AsURL(e, key) ==
  IF ~Has(e, key) THEN NotFound(key)
  ELSE URLResult(key, e[key], ParseRequestURI(e[key]))

\* AsHostPort without the range check
HostPortAnyPort(key, value, u, port) == Ok(u.Host)

\* AsHostPort, lines 140-148, uPort being what strconv.Atoi(u.Port()) returned
HostPortInRange(key, value, u, port) ==
  IF port < PortMin \/ port > PortMax
  THEN Panic("port '%s' (value: '%s') is out of range (1-65535)", <<key, value>>)
  ELSE Ok(u.Host)

HostPortOf(key, value, u, uPort) ==
  HostPortInRange(key, value, u, IF uPort.ok THEN uPort.val ELSE 0)

\* AsHostPort, lines 136-139, u being what url.ParseRequestURI returned
HostPortResult(key, value, u) ==
  IF ~u.ok
  THEN Panic("could not parse '%s' (value: '%s') as URL: %v", <<key, value, u.err>>)
  ELSE HostPortOf(key, value, u.val, Atoi(URLPort(u.val)))

AsHostPort(e, key) ==
  IF ~Has(e, key) THEN NotFound(key)
  ELSE HostPortResult(key, e[key],
                      ParseRequestURI(<<"h","t","t","p",":","/","/">> \o e[key]))

AsInt(e, key) ==
  IF ~Has(e, key) THEN NotFound(key)
  ELSE LET intValue == Atoi(e[key])
       IN IF ~intValue.ok
          THEN Panic("could not parse '%s' (value: '%s') as integer: %v",
                     <<key, e[key], intValue.err>>)
          ELSE Ok(intValue.val)

\* AsIntOr that returns Atoi's zero instead of the default on a parse error
AsIntOrZero(e, key, defaultValue) ==
  IF ~Has(e, key) THEN Ok(defaultValue)
  ELSE LET intValue == Atoi(e[key])
       IN IF ~intValue.ok THEN Ok(0) ELSE Ok(intValue.val)

AsIntOr(e, key, defaultValue) ==
  IF ~Has(e, key) THEN Ok(defaultValue)
  ELSE LET intValue == Atoi(e[key])
       IN IF ~intValue.ok THEN Ok(defaultValue) ELSE Ok(intValue.val)

\* the loop of AsIntSlice from element i on, intSlice so far: the first
\* element that does not parse panics and the slice is dropped
\* the loop of AsIntSlice that skips an element it cannot parse
RECURSIVE IntElementsSkip(_, _, _, _)
IntElementsSkip(key, stringElements, i, intSlice) ==
  IF i > Len(stringElements) THEN Ok(intSlice)
  ELSE LET intValue == Atoi(TrimSpace(stringElements[i]))
       IN IntElementsSkip(key, stringElements, i + 1,
            IF intValue.ok THEN Append(intSlice, intValue.val) ELSE intSlice)

RECURSIVE IntElements(_, _, _, _)
IntElements(key, stringElements, i, intSlice) ==
  IF i > Len(stringElements) THEN Ok(intSlice)
  ELSE LET trimmedElement == TrimSpace(stringElements[i])
           intValue == Atoi(trimmedElement)
       IN IF ~intValue.ok
          THEN Panic("on key '%s', could not parse '%s' as integer: %v",
                     <<key, trimmedElement, intValue.err>>)
          ELSE IntElements(key, stringElements, i + 1, Append(intSlice, intValue.val))

AsIntSlice(e, key, delimiter) ==
  IF ~Has(e, key) THEN NotFound(key)
  ELSE IntElements(key, Split(e[key], delimiter), 1, <<>>)

AsFloat(e, key) ==
  IF ~Has(e, key) THEN NotFound(key)
  ELSE LET floatValue == ParseFloat(e[key])
       IN IF ~floatValue.ok
          THEN Panic("could not parse '%s' (value: '%s') as float: %v",
                     <<key, e[key], floatValue.err>>)
          ELSE Ok(floatValue.val)

\* AsFloatOr that trims the value before parsing it, unlike AsFloat
AsFloatOrTrimmed(e, key, defaultValue) ==
  IF ~Has(e, key) THEN Ok(defaultValue)
  ELSE LET floatValue == ParseFloat(TrimSpace(e[key]))
       IN IF ~floatValue.ok THEN Ok(defaultValue) ELSE Ok(floatValue.val)

AsFloatOr(e, key, defaultValue) ==
  IF ~Has(e, key) THEN Ok(defaultValue)
  ELSE LET floatValue == ParseFloat(e[key])
       IN IF ~floatValue.ok THEN Ok(defaultValue) ELSE Ok(floatValue.val)

\* the loop of AsFloatSlice, as IntElements
RECURSIVE FloatElements(_, _, _, _)
FloatElements(key, stringElements, i, floatSlice) ==
  IF i > Len(stringElements) THEN Ok(floatSlice)
  ELSE LET trimmedElement == TrimSpace(stringElements[i])
           floatValue == ParseFloat(trimmedElement)
       IN IF ~floatValue.ok
          THEN Panic("on key '%s', could not parse '%s' as integer: %v",
                     <<key, trimmedElement, floatValue.err>>)
          ELSE FloatElements(key, stringElements, i + 1, Append(floatSlice, floatValue.val))

AsFloatSlice(e, key, delimiter) ==
  IF ~Has(e, key) THEN NotFound(key)
  ELSE FloatElements(key, Split(e[key], delimiter), 1, <<>>)

\* AsPort whose upper limit is off by one
AsPortOffByOne(e, key) ==
  IF ~Has(e, key) THEN NotFound(key)
  ELSE LET intValue == Atoi(e[key])
       IN IF ~intValue.ok
          THEN Panic("could not parse '%s' (value: '%s') as integer: %v",
                     <<key, e[key], intValue.err>>)
          ELSE IF intValue.val < PortMin \/ intValue.val > PortMax + 1
          THEN Panic("port '%s' (value: '%s') is out of range (1-65535)", <<key, e[key]>>)
          ELSE Ok(intValue.val)

AsPort(e, key) ==
  IF ~Has(e, key) THEN NotFound(key)
  ELSE LET intValue == Atoi(e[key])
       IN IF ~intValue.ok
          THEN Panic("could not parse '%s' (value: '%s') as integer: %v",
                     <<key, e[key], intValue.err>>)
          ELSE IF intValue.val < PortMin \/ intValue.val > PortMax
          THEN Panic("port '%s' (value: '%s') is out of range (1-65535)", <<key, e[key]>>)
          ELSE Ok(intValue.val)

\* AsPortOr that validates the default only when it falls back to it
AsPortOrLazy(e, key, defaultPort) ==
  LET intValue == Atoi(e[key])
      fallback == IF defaultPort < PortMin \/ defaultPort > PortMax
                  THEN Panic("default port '%d' is out of range (1-65535)", <<defaultPort>>)
                  ELSE Ok(defaultPort)
  IN IF ~Has(e, key) THEN fallback
     ELSE IF ~intValue.ok THEN fallback
     ELSE IF intValue.val < PortMin \/ intValue.val > PortMax THEN fallback
     ELSE Ok(intValue.val)

AsPortOr(e, key, defaultPort) ==
  IF defaultPort < PortMin \/ defaultPort > PortMax
  THEN Panic("default port '%d' is out of range (1-65535)", <<defaultPort>>)
  ELSE IF ~Has(e, key) THEN Ok(defaultPort)
  ELSE LET intValue == Atoi(e[key])
       IN IF ~intValue.ok THEN Ok(defaultPort)
          ELSE IF intValue.val < PortMin \/ intValue.val > PortMax THEN Ok(defaultPort)
          ELSE Ok(intValue.val)

-----------------------------------------------------------------------------
(* The accessor layer on its own: an Environment drawn from the pools and  *)
(* the accessors called on it one at a time, as template execution does.   *)

\* the values an environment variable may hold: the boolean words and their
\* neighbours, integers and ports at and around the limits, floats, lists,
\* URLs and host:port pairs
ValuePool == {
  <<"t","r","u","e">>,
  <<"1">>,
  <<"y","e","s">>,
  <<"o","n">>,
  <<"e","n","a","b","l","e">>,
  <<"e","n","a","b","l","e","d">>,
  <<"f","a","l","s","e">>,
  <<"0">>,
  <<"n","o">>,
  <<"o","f","f">>,
  <<"d","i","s","a","b","l","e">>,
  <<"d","i","s","a","b","l","e","d">>,
  <<"T","R","U","E">>,
  <<"Y","e","s">>,
  <<"o","N">>,
  <<"D","i","s","a","b","l","e","d">>,
  <<"m","a","y","b","e">>,
  <<"t","r","u">>,
  <<" ","t","r","u","e">>,
  <<"2">>,
  <<>>,
  <<"4","2">>,
  <<"-","7">>,
  <<"+","5">>,
  <<"0","0","7">>,
  <<"8","0">>,
  <<"6","5","5","3","5">>,
  <<"6","5","5","3","6">>,
  <<"2","1","4","7","4","8","3","6","4","7">>,
  <<"2","1","4","7","4","8","3","6","4","8">>,
  <<"-","2","1","4","7","4","8","3","6","4","8">>,
  <<"9","9","9","9","9","9","9","9","9","9","9">>,
  <<"a","b","c">>,
  <<"8"," ">>,
  <<"-">>,
  <<"1",".","5">>,
  <<"-","0",".","5">>,
  <<".","5">>,
  <<"5",".">>,
  <<"1","e","3">>,
  <<"1","E","-","2">>,
  <<"1","e">>,
  <<".">>,
  <<"i","n","f">>,
  <<"-","I","n","f">>,
  <<"N","a","N">>,
  <<"+","n","a","n">>,
  <<"i","n","f","i","n","i","t","y">>,
  <<"i","n","f","i","n">>,
  <<"1","e","3","0","9">>,
  <<"1",".","8","e","3","0","8">>,
  <<"1",".","7","e","3","0","8">>,
  <<"1",".","5",".","2">>,
  <<"-","0">>,
  <<"1",",","2",",","3">>,
  <<"7",","," ","i","n","v","a","l","i","d",","," ","9">>,
  <<" ","1"," ",","," ","2"," ">>,
  <<"1",",",",","2">>,
  <<"1",".","5",",","2">>,
  <<"a",",","b">>,
  <<",">>,
  <<"1",";","2">>,
  <<"h","t","t","p",":","/","/","h">>,
  <<"H","T","T","P",":","/","/","h",":","8","0","/","p">>,
  <<"m","a","i","l","t","o",":","a">>,
  <<"/","p">>,
  <<"h","t","t","p",":","/","/","h",":","x">>,
  <<"h","t","t","p",":","/","/","u","@","h",":","8","0","/","p","?","q">>,
  <<"h","t","t","p",":","/","/","h","/","a"," ","b">>,
  <<"*">>,
  <<"h","t","t","p",":">>,
  <<":","/","/","h">>,
  <<"h","t","t","p",":","/","p">>,
  <<"h","t","t","p",":","/","/","h","?">>,
  <<"h",":","8","0">>,
  <<"h">>,
  <<"h",":","0">>,
  <<"h",":","6","5","5","3","5">>,
  <<"h",":","6","5","5","3","6">>,
  <<"h",":">>,
  <<":","8","0">>,
  <<"h",":","8","0","/","p">>,
  <<"u","@","h",":","8","0">>,
  <<"h",":","8","a">>,
  <<"h"," ",":","8","0">>,
  <<"h",":","8","0","?","q">>,
  <<"h",":","8","0","\t">>
}

\* the values of the variables other than P
OtherValues == {<<"8","0">>, <<"x">>, <<>>}

KP == <<"P">>

KQ == <<"Q">>

KeyPool == {KP, KQ}

\* the keys looked up: those of KeyPool and one that is never set
LookupKeys == KeyPool \cup {<<"p">>}

\* the largest number of variables of an Environment of the accessor layer
MaxEnvKeys == 2

EnvPool ==
  UNION {{e \in [S -> ValuePool] : \A k \in S \ {KP} : e[k] \in OtherValues} :
           S \in {T \in SUBSET KeyPool : Cardinality(T) <= MaxEnvKeys}}

Delimiters == {<<",">>, <<",", " ">>, <<>>}

CutSets == {<<" ">>, <<" ", "a">>, <<>>}

StringDefaults == {<<>>, <<"d","f","l","t">>}

IntDefaults == {0, -1, 8080}

\* 1.5 and 0
FloatDefaults == {Decimal(FALSE, <<1, 5>>, 1), Decimal(FALSE, <<>>, 0)}

PortDefaults == {-1, 0, 1, 8080, 65535, 65536}

NoCall == [fn |-> "none", key |-> <<>>, a |-> <<>>, res |-> Ok(<<>>)]

Called(fn, key, a, res) == [fn |-> fn, key |-> key, a |-> a, res |-> res]

NoErr == [kind |-> "nil"]

NoReturn == [text |-> <<>>, err |-> [kind |-> "none"]]

NoTemplate == [wellFormed |-> TRUE, nodes |-> <<>>]

\* All: the map itself
All(e) == Ok(e)

\* SortAll: a new map filled key by key from env
SortAll(e) == Ok([k \in DOMAIN e |-> e[k]])

\* a method that stores what AsStringSliceTrim trimmed back under the key
WrittenTrimmed(e, fn, key, a) ==
  IF fn = "asStringSliceTrim" /\ Has(e, key)
  THEN [e EXCEPT ![key] = Trim(e[key], a[2])]
  ELSE e

\* the map behind the Environment after its method fn has run: no method
\* assigns to an element of env (AsStringSliceTrim assigns to elements[i], the
\* slice strings.Split made, and SortAll to result[k], a map of its own)
Written(e, fn, key, a) == e

\* no utility has touched a file
OsIdle == fs = <<>> /\ umask = {} /\ syscalls = <<>>

\* main has written nothing and the process has not exited
IoIdle == stdout = <<>> /\ stderr = <<>> /\ exit = <<>>

\* the accessor layer is idle: no Run is in progress
AccIdle ==
  /\ pc = "acc"
  /\ OsIdle /\ IoIdle
  /\ args = <<>> /\ environ = <<>> /\ idx = 0 /\ envMap = <<>>
  /\ tmpl = NoTemplate /\ funcs = <<>> /\ node = 0
  /\ buf = <<>> /\ rt = NoReturn /\ output = <<>> /\ err = NoErr

InitAcc ==
  /\ env \in EnvPool
  /\ call = NoCall
  /\ AccIdle

\* one accessor call: the Environment is read, the outcome handed to the caller
Evaluate(fn, key, a, res) ==
  /\ pc = "acc"
  /\ call = NoCall
  /\ call' = Called(fn, key, a, res)
  /\ env' = Written(env, fn, key, a)
  /\ UNCHANGED runVars

CallAll == Evaluate("all", <<>>, <<>>, All(env))

CallSortAll == Evaluate("sortAll", <<>>, <<>>, SortAll(env))

\* for k := range m: the orders in which the keys of a Go map may be visited
\* (the language leaves the order open and the runtime varies it)
RangeOrders(m) ==
  {o \in [1..Cardinality(DOMAIN m) -> DOMAIN m] : Range(o) = DOMAIN m}

\* a caller ranging over the map SortAll returned
CallRangeSortAll ==
  \E o \in RangeOrders(SortAll(env).val) : Evaluate("range", <<>>, <<"sortAll">>, Ok(o))

CallAsString == \E k \in LookupKeys : Evaluate("asString", k, <<>>, AsString(env, k))

CallAsStringOr ==
  \E k \in LookupKeys, d \in StringDefaults :
    Evaluate("asStringOr", k, <<d>>, AsStringOr(env, k, d))

CallAsStringSlice ==
  \E k \in LookupKeys, d \in Delimiters :
    Evaluate("asStringSlice", k, <<d>>, AsStringSlice(env, k, d))

CallAsStringSliceTrim ==
  \E k \in LookupKeys, d \in Delimiters, c \in CutSets :
    Evaluate("asStringSliceTrim", k, <<d, c>>, AsStringSliceTrim(env, k, d, c))

CallAsBool == \E k \in LookupKeys : Evaluate("asBool", k, <<>>, AsBool(env, k))

CallAsBoolOr ==
  \E k \in LookupKeys, d \in BOOLEAN : Evaluate("asBoolOr", k, <<d>>, AsBoolOr(env, k, d))

CallAsURL == \E k \in LookupKeys : Evaluate("asURL", k, <<>>, AsURL(env, k))

CallAsHostPort == \E k \in LookupKeys : Evaluate("asHostPort", k, <<>>, AsHostPort(env, k))

CallAsInt == \E k \in LookupKeys : Evaluate("asInt", k, <<>>, AsInt(env, k))

CallAsIntOr ==
  \E k \in LookupKeys, d \in IntDefaults : Evaluate("asIntOr", k, <<d>>, AsIntOr(env, k, d))

CallAsIntSlice ==
  \E k \in LookupKeys, d \in Delimiters :
    Evaluate("asIntSlice", k, <<d>>, AsIntSlice(env, k, d))

CallAsFloat == \E k \in LookupKeys : Evaluate("asFloat", k, <<>>, AsFloat(env, k))

CallAsFloatOr ==
  \E k \in LookupKeys, d \in FloatDefaults :
    Evaluate("asFloatOr", k, <<d>>, AsFloatOr(env, k, d))

CallAsFloatSlice ==
  \E k \in LookupKeys, d \in Delimiters :
    Evaluate("asFloatSlice", k, <<d>>, AsFloatSlice(env, k, d))

CallAsPort == \E k \in LookupKeys : Evaluate("asPort", k, <<>>, AsPort(env, k))

CallAsPortOr ==
  \E k \in LookupKeys, d \in PortDefaults : Evaluate("asPortOr", k, <<d>>, AsPortOr(env, k, d))

\* the caller has taken the outcome; the next call may be evaluated
Taken ==
  /\ pc = "acc"
  /\ call # NoCall
  /\ call' = NoCall
  /\ UNCHANGED <<env, runVars>>

NextAcc ==
  \/ CallAll \/ CallSortAll \/ CallRangeSortAll
  \/ CallAsString \/ CallAsStringOr \/ CallAsStringSlice \/ CallAsStringSliceTrim
  \/ CallAsBool \/ CallAsBoolOr \/ CallAsURL \/ CallAsHostPort
  \/ CallAsInt \/ CallAsIntOr \/ CallAsIntSlice
  \/ CallAsFloat \/ CallAsFloatOr \/ CallAsFloatSlice
  \/ CallAsPort \/ CallAsPortOr
  \/ Taken

SpecAcc == InitAcc /\ [][NextAcc]_vars

-----------------------------------------------------------------------------
(* fmt: how the template engine prints a value into the buffer             *)

RECURSIVE Itoa(_)
Itoa(n) ==
  IF n < 0 THEN <<"-">> \o Itoa(-n)
  ELSE IF n < 10 THEN <<DigitChars[n + 1]>>
  ELSE Itoa(n \div 10) \o <<DigitChars[(n % 10) + 1]>>

DigitAt(digits, i) == IF i >= 1 /\ i <= Len(digits) THEN DigitChars[digits[i] + 1] ELSE "0"

\* strconv's %g with the shortest precision, which %v uses for a float64
FormatFloat(f) ==
  IF f.kind = "nan" THEN <<"N","a","N">>
  ELSE IF f.kind = "inf" THEN (IF f.neg THEN <<"-">> ELSE <<"+">>) \o <<"I","n","f">>
  ELSE LET nd == Len(f.digits)
           x == f.dp - 1
           sign == IF f.neg THEN <<"-">> ELSE <<>>
           ax == IF x < 0 THEN -x ELSE x
           expo == <<"e", IF x < 0 THEN "-" ELSE "+">>
                     \o (IF ax < 10 THEN <<"0">> ELSE <<>>) \o Itoa(ax)
           whole == IF f.dp > 0 THEN [i \in 1..f.dp |-> DigitAt(f.digits, i)] ELSE <<"0">>
           prec == IF nd > f.dp THEN nd - f.dp ELSE 0
           frac == IF prec = 0 THEN <<>>
                   ELSE <<".">> \o [i \in 1..prec |-> DigitAt(f.digits, f.dp + i)]
       IN IF nd = 0 THEN sign \o <<"0">>
          ELSE IF x < -4 \/ x >= 6
               THEN sign \o <<DigitAt(f.digits, 1)>>
                      \o (IF nd > 1 THEN <<".">> \o [i \in 1..(nd - 1) |-> DigitAt(f.digits, i + 1)]
                          ELSE <<>>)
                      \o expo
               ELSE sign \o whole \o frac

RECURSIVE JoinWith(_, _)
JoinWith(parts, sep) ==
  IF Len(parts) = 0 THEN <<>>
  ELSE IF Len(parts) = 1 THEN parts[1]
  ELSE parts[1] \o sep \o JoinWith(Tail(parts), sep)

\* fmt.Fprint of a value of the given Go type
Fprint(type, v) ==
  CASE type = "string" -> v
    [] type = "bool" -> IF v THEN <<"t","r","u","e">> ELSE <<"f","a","l","s","e">>
    [] type = "int" -> Itoa(v)
    [] type = "float64" -> FormatFloat(v)
    [] type = "[]string" -> <<"[">> \o JoinWith(v, <<" ">>) \o <<"]">>
    [] type = "[]int" ->
         <<"[">> \o JoinWith([i \in 1..Len(v) |-> Itoa(v[i])], <<" ">>) \o <<"]">>
    [] type = "[]float64" ->
         <<"[">> \o JoinWith([i \in 1..Len(v) |-> FormatFloat(v[i])], <<" ">>) \o <<"]">>

-----------------------------------------------------------------------------
(* The template functions                                                  *)

\* the methods of the Environment that GetTemplateFunctions binds
AccessorNames ==
  {"all", "asString", "asStringOr", "asStringSlice", "asStringSliceTrim",
   "asBool", "asBoolOr", "asInt", "asIntOr", "asIntSlice",
   "asFloat", "asFloatOr", "asFloatSlice", "asPort", "asPortOr",
   "asURL", "asHostPort", "sortAll"}

\* the package-level functions it adds
UtilityNames ==
  {"contains", "containsAny", "containsCaseInsensitive", "hasPrefix", "hasSuffix",
   "toLower", "toUpper", "trim", "trimLeft", "trimRight", "trimSpace",
   "isEmpty", "isNotEmpty",
   "base64Decode", "base64Encode", "hash", "sequence",
   "fileExistOrDefault"}

\* a method value env.M: the method with the receiver it was taken from
Method(e) == [method |-> TRUE, recv |-> e]

\* a package-level function: no receiver
Function == [method |-> FALSE, recv |-> <<>>]

\* a FuncMap whose methods were taken from an empty Environment
GetTemplateFunctionsUnbound(e) ==
  [n \in AccessorNames \cup UtilityNames |->
     IF n \in AccessorNames THEN Method(NewEnvironment(<<>>)) ELSE Function]

\* the template.FuncMap: name -> callable
GetTemplateFunctions(e) ==
  [n \in AccessorNames \cup UtilityNames |->
     IF n \in AccessorNames THEN Method(e) ELSE Function]

\* the result type of the functions of the namespace that templates print
ResultType(fn) ==
  CASE fn \in {"asString", "asStringOr", "asURL", "asHostPort"} -> "string"
    [] fn \in {"asStringSlice", "asStringSliceTrim"} -> "[]string"
    [] fn \in {"asBool", "asBoolOr"} -> "bool"
    [] fn \in {"asInt", "asIntOr", "asPort", "asPortOr"} -> "int"
    [] fn = "asIntSlice" -> "[]int"
    [] fn \in {"asFloat", "asFloatOr"} -> "float64"
    [] fn = "asFloatSlice" -> "[]float64"
    [] fn = "fileExistOrDefault" -> "bool"

\* the method of the Environment e that GetTemplateFunctions binds to fn,
\* applied to the key and the further arguments a
CallFunc(e, fn, key, a) ==
  CASE fn = "asString" -> AsString(e, key)
    [] fn = "asStringOr" -> AsStringOr(e, key, a[1])
    [] fn = "asStringSlice" -> AsStringSlice(e, key, a[1])
    [] fn = "asStringSliceTrim" -> AsStringSliceTrim(e, key, a[1], a[2])
    [] fn = "asBool" -> AsBool(e, key)
    [] fn = "asBoolOr" -> AsBoolOr(e, key, a[1])
    [] fn = "asInt" -> AsInt(e, key)
    [] fn = "asIntOr" -> AsIntOr(e, key, a[1])
    [] fn = "asIntSlice" -> AsIntSlice(e, key, a[1])
    [] fn = "asFloat" -> AsFloat(e, key)
    [] fn = "asFloatOr" -> AsFloatOr(e, key, a[1])
    [] fn = "asFloatSlice" -> AsFloatSlice(e, key, a[1])
    [] fn = "asPort" -> AsPort(e, key)
    [] fn = "asPortOr" -> AsPortOr(e, key, a[1])
    [] fn = "asURL" -> AsURL(e, key)
    [] fn = "asHostPort" -> AsHostPort(e, key)
    [] fn = "all" -> All(e)
    [] fn = "sortAll" -> SortAll(e)

-----------------------------------------------------------------------------
(* Run and RenderTemplate                                                  *)

\* the environment entries Run may be given
EntryPool == {
  <<"N","A","M","E","=","W","o","r","l","d">>,
  <<"I","N","V","A","L","I","D","_","E","N","T","R","Y">>,
  <<"=","V","A","L","U","E","_","W","I","T","H","O","U","T","_","K","E","Y">>,
  <<"C","O","U","N","T","=","4","2">>,
  <<"N","A","M","E","=">>,
  <<"N","A","M","E","=","a","=","b">>
}

\* the longest environ list
MaxEnviron == 2

\* the most nodes of a template
MaxNodes == 2

KName == <<"N","A","M","E">>

KCount == <<"C","O","U","N","T">>

Text(t) == [t |-> "text", s |-> t, fn |-> "", key |-> <<>>, a |-> <<>>]

CallNode(fn, key, a) == [t |-> "call", s |-> <<>>, fn |-> fn, key |-> key, a |-> a]

\* the nodes of a template: literal text and {{fn "KEY" args}} actions
NodePool == {
  Text(<<"H","e","l","l","o"," ">>),
  CallNode("asStringOr", KName, <<<<"d","e","f","a","u","l","t">>>>),
  CallNode("asString", KName, <<>>),
  CallNode("asInt", KCount, <<>>)
}

SeqsUpTo(S, n) == UNION {[1..m -> S] : m \in 0..n}

\* what os.ReadFile may find: no file, a template the engine parses, or one
\* with a syntax error ("Hello {{.NAME!}")
NoFile == [exists |-> FALSE]

FilePool ==
  {NoFile}
    \cup {[exists |-> TRUE, wellFormed |-> TRUE, nodes |-> ns] : ns \in SeqsUpTo(NodePool, MaxNodes)}
    \cup {[exists |-> TRUE, wellFormed |-> FALSE, nodes |-> <<Text(<<"H","e","l","l","o"," ">>)>>]}

ArgsPool == {<<>>, <<"zep">>, <<"zep", "template.txt">>, <<"zep", "a.txt", "b.txt">>}

Init ==
  /\ args \in ArgsPool
  /\ environ \in SeqsUpTo(EntryPool, MaxEnviron)
  /\ pc = "start"
  /\ env = <<>> /\ call = NoCall
  /\ idx = 0 /\ envMap = <<>>
  /\ tmpl = NoTemplate /\ funcs = <<>> /\ node = 0
  /\ buf = <<>> /\ rt = NoReturn /\ output = <<>> /\ err = NoErr
  /\ OsIdle /\ IoIdle

\* m[k] = v, as the map assignment of Go
MapSet(m, k, v) == [x \in DOMAIN m \cup {k} |-> IF x = k THEN v ELSE m[x]]

\* the loop body splitting at every '=': an entry whose value holds '=' is dropped
PutEntrySplitAll(m, e) ==
  LET pair == Split(e, <<"=">>)
  IN IF Len(pair) = 2 THEN MapSet(m, pair[1], pair[2]) ELSE m

\* the body of the loop of Run for one entry e
PutEntry(m, e) ==
  LET pair == SplitN2(e, <<"=">>)
  IN IF Len(pair) = 2 THEN MapSet(m, pair[1], pair[2]) ELSE m

\* Run, line 11: the argument count.  With no argument at all args[0] is
\* out of range and Run panics instead of returning.
CheckArgs ==
  /\ pc = "start"
  /\ IF Len(args) # 2
     THEN IF Len(args) = 0
          THEN /\ pc' = "panic"
               /\ UNCHANGED <<output, err>>
          ELSE /\ pc' = "done"
               /\ output' = <<>>
               /\ err' = [kind |-> "usage", prog |-> args[1]]
     ELSE /\ pc' = "environ"
          /\ UNCHANGED <<output, err>>
  /\ idx' = 1
  /\ UNCHANGED <<env, call, args, environ, envMap, tmpl, funcs, node, buf, rt>>
  /\ UNCHANGED <<osVars, ioVars>>

\* Run, lines 18-23: one iteration of the loop over environ
EnvironEntry ==
  /\ pc = "environ"
  /\ idx <= Len(environ)
  /\ envMap' = PutEntry(envMap, environ[idx])
  /\ idx' = idx + 1
  /\ UNCHANGED <<env, call, pc, args, environ, tmpl, funcs, node, buf, rt, output, err>>
  /\ UNCHANGED <<osVars, ioVars>>

\* Run, line 24
MakeEnvironment ==
  /\ pc = "environ"
  /\ idx > Len(environ)
  /\ env' = NewEnvironment(envMap)
  /\ pc' = "read"
  /\ UNCHANGED <<call, args, environ, idx, envMap, tmpl, funcs, node, buf, rt, output, err>>
  /\ UNCHANGED <<osVars, ioVars>>

\* Run returns (r.text, r.err)
Return(r) ==
  /\ output' = r.text
  /\ err' = r.err
  /\ pc' = "done"

ReadError(file) == [text |-> <<>>, err |-> [kind |-> "read", file |-> file]]

\* Run, lines 26-29: os.ReadFile
ReadFile ==
  /\ pc = "read"
  /\ \E f \in FilePool :
       IF ~f.exists
       THEN /\ Return(ReadError(args[2]))
            /\ UNCHANGED tmpl
       ELSE /\ tmpl' = [wellFormed |-> f.wellFormed, nodes |-> f.nodes]
            /\ pc' = "bind"
            /\ UNCHANGED <<output, err>>
  /\ UNCHANGED <<env, call, args, environ, idx, envMap, funcs, node, buf, rt>>
  /\ UNCHANGED <<osVars, ioVars>>

\* RenderTemplate, line 512: template.New(...).Funcs(GetTemplateFunctions(env))
Bind ==
  /\ pc = "bind"
  /\ funcs' = GetTemplateFunctions(env)
  /\ pc' = "parse"
  /\ UNCHANGED <<env, call, args, environ, idx, envMap, tmpl, node, buf, rt, output, err>>
  /\ UNCHANGED <<osVars, ioVars>>

\* an engine that takes any text for a template
ParsesAnything(t, fm) == TRUE

\* whether the engine parses the template: its syntax is right and every
\* function it names is bound
Parses(t, fm) ==
  /\ t.wellFormed
  /\ \A i \in 1..Len(t.nodes) : t.nodes[i].t = "call" => t.nodes[i].fn \in DOMAIN fm

ParseError == [text |-> <<>>, err |-> [kind |-> "error parsing template"]]

\* RenderTemplate, lines 513-517
Parse ==
  /\ pc = "parse"
  /\ IF Parses(tmpl, funcs)
     THEN /\ pc' = "exec"
          /\ node' = 1
          /\ buf' = <<>>
          /\ UNCHANGED rt
     ELSE /\ pc' = "rendered"
          /\ rt' = ParseError
          /\ UNCHANGED <<node, buf>>
  /\ UNCHANGED <<env, call, args, environ, idx, envMap, tmpl, funcs, output, err>>
  /\ UNCHANGED <<osVars, ioVars>>

\* RenderTemplate returning what the buffer holds along with the error
ExecuteErrorKeepsText(b, c) ==
  [text |-> b, err |-> [kind |-> "error executing template", cause |-> c]]

\* RenderTemplate, line 519: Execute failed with cause c, b being the buffer
ExecuteError(b, c) == [text |-> <<>>, err |-> [kind |-> "error executing template", cause |-> c]]

\* RenderTemplate, line 521
ExecuteOk(b) == [text |-> b, err |-> NoErr]

\* an Execute that notes a panic and goes on with the next node
ExecCallGoesOn(n, res) ==
  /\ call' = Called(n.fn, n.key, n.a, res)
  /\ buf' = buf \o (IF res.ok THEN Fprint(ResultType(n.fn), res.val) ELSE <<>>)
  /\ node' = node + 1
  /\ UNCHANGED <<pc, rt>>

\* Execute on a {{fn "KEY" args}} action whose function returned res: the value
\* is printed into the buffer, a panic ends Execute with the panic's error
ExecCall(n, res) ==
  /\ call' = Called(n.fn, n.key, n.a, res)
  /\ IF res.ok
     THEN /\ buf' = buf \o Fprint(ResultType(n.fn), res.val)
          /\ node' = node + 1
          /\ UNCHANGED <<pc, rt>>
     ELSE /\ rt' = ExecuteError(buf, res.err)
          /\ pc' = "rendered"
          /\ UNCHANGED <<buf, node>>

ExecStep(n) ==
  IF n.t = "text"
  THEN /\ buf' = buf \o n.s
       /\ node' = node + 1
       /\ UNCHANGED <<call, pc, rt>>
  ELSE ExecCall(n, CallFunc(funcs[n.fn].recv, n.fn, n.key, n.a))

\* RenderTemplate, line 518: Execute evaluates the next node, literal text or
\* the call of a method of the Environment, into the buffer
ExecNode ==
  /\ pc = "exec"
  /\ node <= Len(tmpl.nodes)
  /\ tmpl.nodes[node].t = "text"
       \/ (tmpl.nodes[node].t = "call" /\ tmpl.nodes[node].fn \in AccessorNames)
  /\ ExecStep(tmpl.nodes[node])
  /\ UNCHANGED <<env, args, environ, idx, envMap, tmpl, funcs, output, err>>
  /\ UNCHANGED <<osVars, ioVars>>

\* RenderTemplate, line 521: Execute is through
ExecEnd ==
  /\ pc = "exec"
  /\ node > Len(tmpl.nodes)
  /\ rt' = ExecuteOk(buf)
  /\ pc' = "rendered"
  /\ UNCHANGED <<env, call, args, environ, idx, envMap, tmpl, funcs, node, buf, output, err>>
  /\ UNCHANGED <<osVars, ioVars>>

\* Run, lines 32-36: what Run returns for RenderTemplate's (output, err)
RunResult(r) ==
  IF r.err # NoErr
  THEN [text |-> <<>>, err |-> [kind |-> "error rendering template", cause |-> r.err]]
  ELSE [text |-> r.text, err |-> NoErr]

RunReturn ==
  /\ pc = "rendered"
  /\ Return(RunResult(rt))
  /\ UNCHANGED <<env, call, args, environ, idx, envMap, tmpl, funcs, node, buf, rt>>
  /\ UNCHANGED <<osVars, ioVars>>

\* fmt.Fprintln(w, a): a and a newline
Fprintln(text) == text \o <<"\n">>

\* main, line 11 on an error that prints output first
MainErrorPrints ==
  /\ pc = "done"
  /\ err # NoErr
  /\ stdout' = stdout \o Fprintln(output)
  /\ stderr' = Append(stderr, err)
  /\ pc' = "failed"
  /\ UNCHANGED <<env, call, args, environ, idx, envMap, tmpl, funcs, node, buf, rt, output, err>>
  /\ UNCHANGED <<osVars, exit>>

\* main, lines 10-11: Run returned an error, which is written to os.Stderr
MainError ==
  /\ pc = "done"
  /\ err # NoErr
  /\ stderr' = Append(stderr, err)
  /\ pc' = "failed"
  /\ UNCHANGED <<env, call, args, environ, idx, envMap, tmpl, funcs, node, buf, rt, output, err>>
  /\ UNCHANGED <<osVars, stdout, exit>>

\* main, line 12: os.Exit(1)
MainExit ==
  /\ pc = "failed"
  /\ exit' = <<1>>
  /\ pc' = "exit"
  /\ UNCHANGED <<env, call, args, environ, idx, envMap, tmpl, funcs, node, buf, rt, output, err>>
  /\ UNCHANGED <<osVars, stdout, stderr>>

\* main, line 14: Run returned no error, its output is written to os.Stdout
MainOutput ==
  /\ pc = "done"
  /\ err = NoErr
  /\ stdout' = stdout \o Fprintln(output)
  /\ pc' = "printed"
  /\ UNCHANGED <<env, call, args, environ, idx, envMap, tmpl, funcs, node, buf, rt, output, err>>
  /\ UNCHANGED <<osVars, stderr, exit>>

\* main, line 15: main returns and the process exits with status 0
MainReturn ==
  /\ pc = "printed"
  /\ exit' = <<0>>
  /\ pc' = "exit"
  /\ UNCHANGED <<env, call, args, environ, idx, envMap, tmpl, funcs, node, buf, rt, output, err>>
  /\ UNCHANGED <<osVars, stdout, stderr>>

\* Run panicked (run.go, line 12, args[0] of an empty args): the runtime writes
\* the panic to os.Stderr and the process exits with status 2
GoPanic ==
  /\ pc = "panic"
  /\ stderr' = Append(stderr, [kind |-> "panic: runtime error: index out of range [0] with length 0"])
  /\ exit' = <<2>>
  /\ pc' = "exit"
  /\ UNCHANGED <<env, call, args, environ, idx, envMap, tmpl, funcs, node, buf, rt, output, err>>
  /\ UNCHANGED <<osVars, stdout>>

Next ==
  \/ CheckArgs \/ EnvironEntry \/ MakeEnvironment \/ ReadFile
  \/ Bind \/ Parse \/ ExecNode \/ ExecEnd \/ RunReturn
  \/ MainError \/ MainExit \/ MainOutput \/ MainReturn \/ GoPanic

Spec == Init /\ [][Next]_vars

\* main is the one goroutine of the process: it takes its next step
SpecFair == Spec /\ WF_vars(Next)

-----------------------------------------------------------------------------
(* The utilities: package-level functions of the template namespace        *)

IntMin == -IntMax - 1

\* i++ on an int: it wraps around at the largest value
Inc(i) == IF i = IntMax THEN IntMin ELSE i + 1

\* x - y on ints, wrapping around
Sub(x, y) ==
  IF y > 0 /\ x < IntMin + y THEN (x - IntMin) + (IntMax - y) + 1
  ELSE IF y < 0 /\ x > IntMax + y THEN (x - IntMax - 1) + (IntMin - y)
  ELSE x - y

\* a runtime panic (index out of range, makeslice: len out of range)
RuntimeError(text, a) == [ok |-> FALSE, err |-> [runtime |-> text, a |-> a]]

\* sequence, lines 424-426: the loop, i being the loop variable
RECURSIVE SequenceLoop(_, _, _, _)
SequenceLoop(start, end, i, seq) ==
  IF ~(i <= end) THEN Ok(seq)
  ELSE IF Sub(i, start) < 0 \/ Sub(i, start) >= Len(seq)
  THEN RuntimeError("index out of range [%d] with length %d", <<Sub(i, start), Len(seq)>>)
  ELSE SequenceLoop(start, end, Inc(i), [seq EXCEPT ![Sub(i, start) + 1] = i])

\* sequence, line 423: make([]int, n), then the loop
SequenceOfLen(start, end, n) ==
  IF n < 0 THEN RuntimeError("makeslice: len out of range", <<>>)
  ELSE SequenceLoop(start, end, start, [i \in 1..n |-> 0])

\* sequence: nil when start > end
sequence(start, end) ==
  IF start > end THEN Ok(<<>>)
  ELSE SequenceOfLen(start, end, Inc(Sub(end, start)))

\* the bytes a string element stands for: a printable ASCII character stands
\* for itself (the backquote excepted), any other byte is written "xhh", its
\* two hexadecimal digits
ByteChars == <<
  "x00", "x01", "x02", "x03", "x04", "x05", "x06", "x07",
  "x08", "\t", "\n", "x0b", "x0c", "\r", "x0e", "x0f",
  "x10", "x11", "x12", "x13", "x14", "x15", "x16", "x17",
  "x18", "x19", "x1a", "x1b", "x1c", "x1d", "x1e", "x1f",
  " ", "!", "\"", "#", "$", "%", "&", "'",
  "(", ")", "*", "+", ",", "-", ".", "/",
  "0", "1", "2", "3", "4", "5", "6", "7",
  "8", "9", ":", ";", "<", "=", ">", "?",
  "@", "A", "B", "C", "D", "E", "F", "G",
  "H", "I", "J", "K", "L", "M", "N", "O",
  "P", "Q", "R", "S", "T", "U", "V", "W",
  "X", "Y", "Z", "[", "\\", "]", "^", "_",
  "x60", "a", "b", "c", "d", "e", "f", "g",
  "h", "i", "j", "k", "l", "m", "n", "o",
  "p", "q", "r", "s", "t", "u", "v", "w",
  "x", "y", "z", "{", "|", "}", "~", "x7f",
  "x80", "x81", "x82", "x83", "x84", "x85", "x86", "x87",
  "x88", "x89", "x8a", "x8b", "x8c", "x8d", "x8e", "x8f",
  "x90", "x91", "x92", "x93", "x94", "x95", "x96", "x97",
  "x98", "x99", "x9a", "x9b", "x9c", "x9d", "x9e", "x9f",
  "xa0", "xa1", "xa2", "xa3", "xa4", "xa5", "xa6", "xa7",
  "xa8", "xa9", "xaa", "xab", "xac", "xad", "xae", "xaf",
  "xb0", "xb1", "xb2", "xb3", "xb4", "xb5", "xb6", "xb7",
  "xb8", "xb9", "xba", "xbb", "xbc", "xbd", "xbe", "xbf",
  "xc0", "xc1", "xc2", "xc3", "xc4", "xc5", "xc6", "xc7",
  "xc8", "xc9", "xca", "xcb", "xcc", "xcd", "xce", "xcf",
  "xd0", "xd1", "xd2", "xd3", "xd4", "xd5", "xd6", "xd7",
  "xd8", "xd9", "xda", "xdb", "xdc", "xdd", "xde", "xdf",
  "xe0", "xe1", "xe2", "xe3", "xe4", "xe5", "xe6", "xe7",
  "xe8", "xe9", "xea", "xeb", "xec", "xed", "xee", "xef",
  "xf0", "xf1", "xf2", "xf3", "xf4", "xf5", "xf6", "xf7",
  "xf8", "xf9", "xfa", "xfb", "xfc", "xfd", "xfe", "xff"
>>

\* the byte value of the string element c
Ord(c) == (CHOOSE i \in 1..Len(ByteChars) : ByteChars[i] = c) - 1

\* []byte(s)
Bytes(s) == [i \in 1..Len(s) |-> Ord(s[i])]

\* string(b)
String(b) == [i \in 1..Len(b) |-> ByteChars[b[i] + 1]]

\* encoding/base64: the alphabet of StdEncoding, its padding is '='
EncodeStd == <<
  "A", "B", "C", "D", "E", "F", "G", "H", "I", "J", "K", "L", "M", "N", "O", "P",
  "Q", "R", "S", "T", "U", "V", "W", "X", "Y", "Z", "a", "b", "c", "d", "e", "f",
  "g", "h", "i", "j", "k", "l", "m", "n", "o", "p", "q", "r", "s", "t", "u", "v",
  "w", "x", "y", "z", "0", "1", "2", "3", "4", "5", "6", "7", "8", "9", "+", "/"
>>

\* the 6-bit value the alphabet gives c: 64 when c is not in the alphabet
DecodeStd(c) ==
  IF \E i \in 1..Len(EncodeStd) : EncodeStd[i] = c
  THEN (CHOOSE i \in 1..Len(EncodeStd) : EncodeStd[i] = c) - 1
  ELSE 64

\* the characters for the 24 bits v of which the first n bytes are data
EncodeQuantum(v, n) ==
  <<EncodeStd[(v \div 262144) + 1], EncodeStd[((v \div 4096) % 64) + 1]>>
    \o (IF n >= 2 THEN <<EncodeStd[((v \div 64) % 64) + 1]>> ELSE <<"=">>)
    \o (IF n >= 3 THEN <<EncodeStd[(v % 64) + 1]>> ELSE <<"=">>)

\* the same without the padding, as RawStdEncoding writes it
EncodeQuantumRaw(v, n) ==
  <<EncodeStd[(v \div 262144) + 1], EncodeStd[((v \div 4096) % 64) + 1]>>
    \o (IF n >= 2 THEN <<EncodeStd[((v \div 64) % 64) + 1]>> ELSE <<>>)
    \o (IF n >= 3 THEN <<EncodeStd[(v % 64) + 1]>> ELSE <<>>)

ByteAt(b, i) == IF i <= Len(b) THEN b[i] ELSE 0

\* Encoding.EncodeToString from byte i on: three bytes make four characters
RECURSIVE EncodeToString(_, _)
EncodeToString(b, i) ==
  IF i > Len(b) THEN <<>>
  ELSE EncodeQuantum(ByteAt(b, i) * 65536 + ByteAt(b, i + 1) * 256 + ByteAt(b, i + 2),
                     Len(b) - i + 1)
         \o EncodeToString(b, i + 3)

RECURSIVE EncodeToStringRaw(_, _)
EncodeToStringRaw(b, i) ==
  IF i > Len(b) THEN <<>>
  ELSE EncodeQuantumRaw(ByteAt(b, i) * 65536 + ByteAt(b, i + 1) * 256 + ByteAt(b, i + 2),
                        Len(b) - i + 1)
         \o EncodeToStringRaw(b, i + 3)

\* base64Encode with the unpadded encoding
base64EncodeRaw(s) == Ok(EncodeToStringRaw(Bytes(s), 1))

\* base64Encode
base64Encode(s) == Ok(EncodeToString(Bytes(s), 1))

NotNewline(c) == c \notin {"\r", "\n"}

\* the number of data characters of the quantum of s at i (s without its
\* newlines): 4, or 3 or 2 when '=' pads the last quantum; 0 for corrupt input
QuantumLen(s, i) ==
  IF i + 3 > Len(s) \/ DecodeStd(s[i]) = 64 \/ DecodeStd(s[i + 1]) = 64 THEN 0
  ELSE IF s[i + 2] = "="
  THEN (IF s[i + 3] = "=" /\ i + 3 = Len(s) THEN 2 ELSE 0)
  ELSE IF DecodeStd(s[i + 2]) = 64 THEN 0
  ELSE IF s[i + 3] = "="
  THEN (IF i + 3 = Len(s) THEN 3 ELSE 0)
  ELSE IF DecodeStd(s[i + 3]) = 64 THEN 0
  ELSE 4

\* the bytes of the 24 bits v of which n characters were data
QuantumBytes(v, n) ==
  <<v \div 65536>>
    \o (IF n >= 3 THEN <<(v \div 256) % 256>> ELSE <<>>)
    \o (IF n >= 4 THEN <<v % 256>> ELSE <<>>)

\* Encoding.DecodeString on s without its newlines, from character i on, out
\* being the bytes decoded so far
RECURSIVE DecodeFrom(_, _, _)
DecodeFrom(s, i, out) ==
  IF i > Len(s) THEN Ok(out)
  ELSE IF QuantumLen(s, i) = 0 THEN [ok |-> FALSE, err |-> "illegal base64 data"]
  ELSE DecodeFrom(s, i + 4,
         out \o QuantumBytes(
                  DecodeStd(s[i]) * 262144 + DecodeStd(s[i + 1]) * 4096
                    + (IF QuantumLen(s, i) >= 3 THEN DecodeStd(s[i + 2]) * 64 ELSE 0)
                    + (IF QuantumLen(s, i) >= 4 THEN DecodeStd(s[i + 3]) ELSE 0),
                  QuantumLen(s, i)))

\* base64.StdEncoding.DecodeString: '\r' and '\n' are skipped
DecodeString(s) == DecodeFrom(SelectSeq(s, NotNewline), 1, <<>>)

Base64Result(decoded) ==
  IF ~decoded.ok THEN Panic("could not decode base64 string: %v", <<decoded.err>>)
  ELSE Ok(String(decoded.val))

\* base64Decode
base64Decode(s) == Base64Result(DecodeString(s))

\* the digest a hash function computes: determined by the function and the
\* bytes hashed, size bytes long
Sum(function, input, size) == [sum |-> function, of |-> Bytes(input), size |-> size]

\* fmt.Sprintf("%x", digest): two lowercase hexadecimal digits for each byte
Hex(digest) == [hex |-> digest, len |-> 2 * digest.size]

Md5 == <<"m","d","5">>

Sha1 == <<"s","h","a","1">>

Sha224 == <<"s","h","a","2","2","4">>

Sha256 == <<"s","h","a","2","5","6">>

Sha512 == <<"s","h","a","5","1","2">>

\* the switch of hash on the name as it is
HashSwitch(input, algorithm, name) ==
  CASE name = Md5 -> Ok(Hex(Sum("md5.Sum", input, 16)))
    [] name = Sha1 -> Ok(Hex(Sum("sha1.Sum", input, 20)))
    [] name = Sha224 -> Ok(Hex(Sum("sha256.Sum224", input, 28)))
    [] name = Sha256 -> Ok(Hex(Sum("sha256.Sum256", input, 32)))
    [] name = Sha512 -> Ok(Hex(Sum("sha512.Sum512", input, 64)))
    [] OTHER -> Panic("unsupported hash algorithm: %s", <<algorithm>>)

\* hash that compares the algorithm name as it was given
hashCaseSensitive(input, algorithm) == HashSwitch(input, algorithm, algorithm)

\* hash
hash(input, algorithm) == HashSwitch(input, algorithm, ToLower(algorithm))

-----------------------------------------------------------------------------
(* The utilities on their own: one call at a time on arguments drawn from  *)
(* the pools                                                               *)

\* the longest slice sequence is asked for
MaxSeqLen == 4

IntPool == {IntMin, IntMin + 1, -1, 0, 1, 2, 3, IntMax - 1, IntMax}

\* the pairs (start, end) whose slice, if one is made, is within MaxSeqLen
SequenceArgs ==
  {p \in IntPool \X IntPool : p[1] > p[2] \/ Inc(Sub(p[2], p[1])) <= MaxSeqLen}

\* the longest string a utility is given
MaxInputLen == 4

\* the characters of those strings: letters, a space, and the bytes 0 and 255
InputChars == {"a", "~", " ", "x00", "xff"}

InputPool == SeqsUpTo(InputChars, MaxInputLen)

\* what base64Decode is given: encodings, with and without their padding,
\* with newlines, and corrupt ones
EncodedPool == {
  <<>>,
  <<"Y","Q","=","=">>,
  <<"Y","W","I","=">>,
  <<"Y","W","J","j">>,
  <<"Y","W","J","j","Z","A","=","=">>,
  <<"Y","Q">>,
  <<"Y","Q","=">>,
  <<"Y">>,
  <<"Y","Q","=","a">>,
  <<"Y","R","=","=">>,
  <<"Y","W","\n","J","j">>,
  <<"Y","W","J","j","\r","\n">>,
  <<"Y","*","=","=">>,
  <<"=","=","=","=">>,
  <<"=","Y","Q","=">>,
  <<"Y","Q","=","=","Y","Q","=","=">>,
  <<"Y","W","-","_">>,
  <<"Y","W","J","j"," ","Y","Q","=","=">>,
  <<" ">>
}

\* the strings hash is given
HashInputs == {s \in InputPool : Len(s) <= 2}

\* the algorithm names hash is given
AlgorithmPool == {
  <<"m","d","5">>,
  <<"M","D","5">>,
  <<"s","h","a","1">>,
  <<"S","h","a","1">>,
  <<"s","h","a","2","2","4">>,
  <<"s","h","a","2","5","6">>,
  <<"S","H","A","2","5","6">>,
  <<"s","h","a","5","1","2">>,
  <<"S","h","a","5","1","2">>,
  <<>>,
  <<"m","d","4">>,
  <<"s","h","a","-","2","5","6">>,
  <<"s","h","a","3">>,
  <<"s","h","a","5","1","2"," ">>,
  <<"s","h","a">>
}

InitUtil ==
  /\ env = <<>> /\ call = NoCall
  /\ pc = "util"
  /\ args = <<>> /\ environ = <<>> /\ idx = 0 /\ envMap = <<>>
  /\ tmpl = NoTemplate /\ funcs = <<>> /\ node = 0
  /\ buf = <<>> /\ rt = NoReturn /\ output = <<>> /\ err = NoErr
  /\ OsIdle /\ IoIdle

\* one call of a utility that touches no file
EvaluateUtil(fn, a, res) ==
  /\ pc = "util"
  /\ call = NoCall
  /\ call' = Called(fn, <<>>, a, res)
  /\ UNCHANGED <<env, runVars>>

CallSequence ==
  \E p \in SequenceArgs : EvaluateUtil("sequence", <<p[1], p[2]>>, sequence(p[1], p[2]))

CallBase64Encode ==
  \E s \in InputPool : EvaluateUtil("base64Encode", <<s>>, base64Encode(s))

CallBase64Decode ==
  \E s \in EncodedPool : EvaluateUtil("base64Decode", <<s>>, base64Decode(s))

CallHash ==
  \E s \in HashInputs, al \in AlgorithmPool : EvaluateUtil("hash", <<s, al>>, hash(s, al))

\* the caller has taken the outcome
TakenUtil ==
  /\ pc = "util"
  /\ call # NoCall
  /\ call' = NoCall
  /\ UNCHANGED <<env, runVars>>

NextUtil ==
  \/ CallSequence
  \/ CallBase64Encode \/ CallBase64Decode
  \/ CallHash
  \/ TakenUtil

SpecUtil == InitUtil /\ [][NextUtil]_vars

-----------------------------------------------------------------------------
(* fileExistOrDefault and the file system it works on.  The process is the *)
(* owner of every file and is not root; the paths lie in one directory,    *)
(* Dir.  Permission bits are a set: "ur" is the owner's read bit, "gw" the *)
(* group's write bit, "ox" the others' execute bit, and so on.             *)

NoEntry == [kind |-> "none"]

RegularFile(data, perm) == [kind |-> "file", data |-> data, perm |-> perm]

Directory(perm) == [kind |-> "dir", perm |-> perm]

\* the directory the paths lie in
Dir == "."

\* a system call the utility made
Syscall(name, path) == [call |-> name, path |-> path]

ENOENT == [ok |-> FALSE, err |-> "no such file or directory"]

EACCES == [ok |-> FALSE, err |-> "permission denied"]

EISDIR == [ok |-> FALSE, err |-> "is a directory"]

\* os.Stat: the FileInfo, of which Mode() holds the permission bits
Stat(files, path) ==
  IF files[path] = NoEntry THEN ENOENT
  ELSE Ok([isDir |-> files[path].kind = "dir", perm |-> files[path].perm])

\* os.Open: the file opened for reading
Open(files, path) ==
  IF files[path] = NoEntry THEN ENOENT
  ELSE IF "ur" \notin files[path].perm THEN EACCES
  ELSE Ok(path)

\* os.OpenFile(path, O_WRONLY|O_CREATE|O_TRUNC, perm): an existing file is
\* truncated; a new one is created with the bits of perm the mask leaves
OpenFile(files, mask, path, perm) ==
  IF files[path] = NoEntry
  THEN IF "uw" \notin files[Dir].perm THEN EACCES
       ELSE Ok([files EXCEPT ![path] = RegularFile(<<>>, perm \ mask)])
  ELSE IF files[path].kind = "dir" THEN EISDIR
  ELSE IF "uw" \notin files[path].perm THEN EACCES
  ELSE Ok([files EXCEPT ![path].data = <<>>])

\* io.Copy(w, r): what r reads is written to w
Copy(files, w, r) ==
  IF files[r].kind = "dir" THEN EISDIR
  ELSE Ok([files EXCEPT ![w].data = files[r].data])

\* what a call leaves: its outcome, the file system and the calls it made
Left(res, files, ops) == [res |-> res, fs |-> files, ops |-> ops]

\* fileExistOrDefault, lines 452-456
CopyDefault(created, destination, defaultPath, ops, copied) ==
  IF ~copied.ok
  THEN Left(Panic("could not copy file '%s' to '%s': %v",
                  <<defaultPath, destination, copied.err>>), created, ops)
  ELSE Left(Ok(TRUE), copied.val, ops)

\* fileExistOrDefault, lines 446-450
CreateDestination(files, destination, defaultPath, ops, w) ==
  IF ~w.ok
  THEN Left(Panic("could not open file '%s': %v", <<destination, w.err>>), files, ops)
  ELSE CopyDefault(w.val, destination, defaultPath,
                   Append(ops, Syscall("read", defaultPath)),
                   Copy(w.val, destination, defaultPath))

\* fileExistOrDefault, lines 440-444
OpenDefault(files, mask, destination, defaultPath, ops, fileInfo, r) ==
  IF ~r.ok
  THEN Left(Panic("could not open file '%s': %v", <<defaultPath, r.err>>), files, ops)
  ELSE CreateDestination(files, destination, defaultPath,
                         Append(ops, Syscall("openfile", destination)),
                         OpenFile(files, mask, destination, fileInfo.perm))

\* fileExistOrDefault, lines 435-438
StatDefault(files, mask, destination, defaultPath, ops, fileInfo) ==
  IF ~fileInfo.ok
  THEN Left(Panic("could not read file permissions for '%s': %v",
                  <<defaultPath, fileInfo.err>>), files, ops)
  ELSE OpenDefault(files, mask, destination, defaultPath,
                   Append(ops, Syscall("open", defaultPath)),
                   fileInfo.val, Open(files, defaultPath))

\* fileExistOrDefault that copies the default whether or not the destination exists
fileExistOrDefaultAlways(files, mask, destination, defaultPath) ==
  StatDefault(files, mask, destination, defaultPath,
              <<Syscall("stat", destination), Syscall("stat", defaultPath)>>,
              Stat(files, defaultPath))

\* fileExistOrDefault that reports success when the default cannot be stat-ed
fileExistOrDefaultLenient(files, mask, destination, defaultPath) ==
  IF Stat(files, destination) # ENOENT \/ ~Stat(files, defaultPath).ok
  THEN Left(Ok(TRUE), files, <<Syscall("stat", destination)>>)
  ELSE StatDefault(files, mask, destination, defaultPath,
                   <<Syscall("stat", destination), Syscall("stat", defaultPath)>>,
                   Stat(files, defaultPath))

\* fileExistOrDefault, run on the file system files under the mask
fileExistOrDefault(files, mask, destination, defaultPath) ==
  IF Stat(files, destination) # ENOENT
  THEN Left(Ok(TRUE), files, <<Syscall("stat", destination)>>)
  ELSE StatDefault(files, mask, destination, defaultPath,
                   <<Syscall("stat", destination), Syscall("stat", defaultPath)>>,
                   Stat(files, defaultPath))

-----------------------------------------------------------------------------
(* fileExistOrDefault on its own: calls on the file systems of the pool    *)

Destination == "destination"

DefaultPath == "default"

PathPool == {Destination, DefaultPath}

AllBits == {"ur", "uw", "ux", "gr", "gw", "gx", "or", "ow", "ox"}

\* 0644, 0666, 0600, 0444, 0755, 0200
PermPool == {
  {"ur", "uw", "gr", "or"},
  {"ur", "uw", "gr", "gw", "or", "ow"},
  {"ur", "uw"},
  {"ur", "gr", "or"},
  AllBits \ {"gw", "ow"},
  {"uw"}
}

\* 022, 0, 077
MaskPool == {{"gw", "ow"}, {}, AllBits \ {"ur", "uw", "ux"}}

\* the Dir is writable or not
DirPool == {Directory(AllBits \ {"gw", "ow"}), Directory({"ur", "ux", "gr", "gx", "or", "ox"})}

Old == <<"o","l","d">>

Seed == <<"s","e","e","d">>

DestinationPool == {NoEntry, RegularFile(Old, {"ur", "uw"})}

DefaultPool ==
  {NoEntry, Directory(AllBits \ {"gw", "ow"})} \cup {RegularFile(Seed, perm) : perm \in PermPool}

FsPool ==
  {[path \in PathPool \cup {Dir} |->
      IF path = Dir THEN d ELSE IF path = Destination THEN dst ELSE src] :
     d \in DirPool, dst \in DestinationPool, src \in DefaultPool}

InitFile ==
  /\ env = <<>> /\ call = NoCall
  /\ pc = "file"
  /\ args = <<>> /\ environ = <<>> /\ idx = 0 /\ envMap = <<>>
  /\ tmpl = NoTemplate /\ funcs = <<>> /\ node = 0
  /\ buf = <<>> /\ rt = NoReturn /\ output = <<>> /\ err = NoErr
  /\ fs \in FsPool /\ umask \in MaskPool /\ syscalls = <<>>
  /\ IoIdle

\* the call has left its outcome, the file system and the calls it made
FileCall(destination, defaultPath, left) ==
  /\ call' = Called("fileExistOrDefault", <<>>, <<destination, defaultPath>>, left.res)
  /\ fs' = left.fs
  /\ syscalls' = left.ops

CallFileExistOrDefault ==
  /\ pc = "file"
  /\ call = NoCall
  /\ \E destination \in PathPool, defaultPath \in PathPool :
       FileCall(destination, defaultPath,
                fileExistOrDefault(fs, umask, destination, defaultPath))
  /\ UNCHANGED <<env, pc, args, environ, idx, envMap, tmpl, funcs, node, buf, rt, output, err>>
  /\ UNCHANGED <<umask, ioVars>>

\* the caller has taken the outcome
TakenFile ==
  /\ pc = "file"
  /\ call # NoCall
  /\ call' = NoCall
  /\ UNCHANGED <<env, runVars>>

NextFile == CallFileExistOrDefault \/ TakenFile

SpecFile == InitFile /\ [][NextFile]_vars

-----------------------------------------------------------------------------
(* RenderTemplate on its own: the templates of the pool, which also read   *)
(* the data context by field ({{.KEY}}), guard an action by {{if}} and     *)
(* call fileExistOrDefault                                                 *)

\* sort.Strings and fmt's map printing order strings byte by byte
RECURSIVE Less(_, _)
Less(a, b) ==
  IF Len(b) = 0 THEN FALSE
  ELSE IF Len(a) = 0 THEN TRUE
  ELSE IF a[1] # b[1] THEN Ord(a[1]) < Ord(b[1])
  ELSE Less(Tail(a), Tail(b))

\* the strings of S in ascending order
RECURSIVE SortStrings(_)
SortStrings(S) ==
  IF S = {} THEN <<>>
  ELSE LET k == CHOOSE x \in S : \A y \in S \ {x} : Less(x, y)
       IN <<k>> \o SortStrings(S \ {k})

\* "k:v" for every key of keys
MapPairs(m, keys) == [i \in 1..Len(keys) |-> keys[i] \o <<":">> \o m[keys[i]]]

\* fmt.Fprint of a map[string]string: map[k:v k:v], the keys ascending
FprintMap(m) ==
  <<"m","a","p","[">> \o JoinWith(MapPairs(m, SortStrings(DOMAIN m)), <<" ">>) \o <<"]">>

\* the methods of Environment without parameters
NiladicMethods == {<<"A","l","l">>, <<"S","o","r","t","A","l","l">>}

\* its methods that take the key (and more)
KeyedMethods == {
  <<"A","s","S","t","r","i","n","g">>, <<"A","s","S","t","r","i","n","g","O","r">>,
  <<"A","s","S","t","r","i","n","g","S","l","i","c","e">>,
  <<"A","s","S","t","r","i","n","g","S","l","i","c","e","T","r","i","m">>,
  <<"A","s","B","o","o","l">>, <<"A","s","B","o","o","l","O","r">>,
  <<"A","s","I","n","t">>, <<"A","s","I","n","t","O","r">>,
  <<"A","s","I","n","t","S","l","i","c","e">>,
  <<"A","s","F","l","o","a","t">>, <<"A","s","F","l","o","a","t","O","r">>,
  <<"A","s","F","l","o","a","t","S","l","i","c","e">>,
  <<"A","s","P","o","r","t">>, <<"A","s","P","o","r","t","O","r">>,
  <<"A","s","U","R","L">>, <<"A","s","H","o","s","t","P","o","r","t">>
}

\* what the engine prints for a map element that is not there
NoValue == <<"<","n","o"," ","v","a","l","u","e",">">>

\* the engine evaluating the field .name of the data e, an Environment: a
\* method of that name is called; only when there is none is name a key
EvalField(e, name) ==
  IF name \in NiladicMethods THEN Ok(FprintMap(e))
  ELSE IF name \in KeyedMethods
  THEN [ok |-> FALSE, err |-> [kind |-> "wrong number of args", name |-> name]]
  ELSE IF Has(e, name) THEN Ok(e[name])
  ELSE Ok(NoValue)

KAll == <<"A","l","l">>

KFlag == <<"F","L","A","G">>

Other == "other"

FieldNode(key) ==
  [t |-> "field", s |-> <<>>, fn |-> ".", key |-> key, a |-> <<>>, body |-> <<>>]

\* {{if fn "KEY" args}}{{body}}{{end}}
IfNode(cond, body) ==
  [t |-> "if", s |-> <<>>, fn |-> cond.fn, key |-> cond.key, a |-> cond.a, body |-> <<body>>]

Plain(n) == [t |-> n.t, s |-> n.s, fn |-> n.fn, key |-> n.key, a |-> n.a, body |-> <<>>]

FileNode(destination, defaultPath) ==
  Plain(CallNode("fileExistOrDefault", <<>>, <<destination, defaultPath>>))

\* the nodes of the templates rendered
ActionPool == {
  Plain(Text(<<"H","e","l","l","o"," ">>)),
  FieldNode(KName),
  FieldNode(KAll),
  Plain(CallNode("asString", KName, <<>>)),
  Plain(CallNode("asString", KAll, <<>>)),
  IfNode(CallNode("asBoolOr", KFlag, <<FALSE>>), CallNode("asInt", KCount, <<>>)),
  FileNode(Destination, DefaultPath),
  FileNode(Other, DefaultPath)
}

\* the most nodes of a template rendered
MaxTemplate == 3

\* templates the engine parses and one it does not ("{{asString "NAME"}}{{")
TemplatePool ==
  {[wellFormed |-> TRUE, nodes |-> ns] : ns \in SeqsUpTo(ActionPool, MaxTemplate)}
    \cup {[wellFormed |-> FALSE, nodes |-> <<Plain(CallNode("asString", KName, <<>>))>>]}

World == <<"W","o","r","l","d">>

\* the Environments rendered against
DataPool == {
  <<>>,
  [k \in {KName} |-> World],
  [k \in {KName, KAll} |-> IF k = KName THEN World ELSE <<"x">>],
  [k \in {KFlag} |-> <<"t","r","u","e">>]
}

\* the default file is there or not; nothing else is
TemplateFsPool ==
  {[path \in {Dir, Destination, DefaultPath, Other} |->
      IF path = Dir THEN Directory(AllBits \ {"gw", "ow"})
      ELSE IF path = DefaultPath THEN src
      ELSE NoEntry] :
     src \in {NoEntry, RegularFile(Seed, {"ur", "uw", "gr", "or"})}}

InitTemplate ==
  /\ env \in DataPool
  /\ tmpl \in TemplatePool
  /\ fs \in TemplateFsPool /\ umask = {"gw", "ow"} /\ syscalls = <<>>
  /\ pc = "bind"
  /\ call = NoCall
  /\ args = <<>> /\ environ = <<>> /\ idx = 0 /\ envMap = <<>>
  /\ funcs = <<>> /\ node = 0
  /\ buf = <<>> /\ rt = NoReturn /\ output = <<>> /\ err = NoErr
  /\ IoIdle

\* Execute on a field that evaluated to res
FieldStep(n, res) ==
  /\ call' = Called(n.fn, n.key, <<>>, res)
  /\ IF res.ok
     THEN /\ buf' = buf \o res.val
          /\ node' = node + 1
          /\ UNCHANGED <<pc, rt>>
     ELSE /\ rt' = ExecuteError(buf, res.err)
          /\ pc' = "rendered"
          /\ UNCHANGED <<buf, node>>

\* RenderTemplate, line 518: Execute on {{.KEY}}, env being the data
ExecField ==
  /\ pc = "exec"
  /\ node <= Len(tmpl.nodes)
  /\ tmpl.nodes[node].t = "field"
  /\ FieldStep(tmpl.nodes[node], EvalField(env, tmpl.nodes[node].key))
  /\ UNCHANGED <<env, args, environ, idx, envMap, tmpl, funcs, output, err>>
  /\ UNCHANGED <<osVars, ioVars>>

\* the truth of a value, as {{if}} takes it
Truth(type, v) ==
  CASE type = "bool" -> v
    [] type = "int" -> v # 0
    [] type = "string" -> Len(v) > 0
    [] OTHER -> TRUE

\* an engine that evaluates the body before it looks at the condition
IfStepEager(n, cond) ==
  ExecCall(n.body[1],
           CallFunc(funcs[n.body[1].fn].recv, n.body[1].fn, n.body[1].key, n.body[1].a))

\* Execute on an {{if}} whose condition evaluated to cond: the body is
\* evaluated when the condition is true, and only then
IfStep(n, cond) ==
  IF ~cond.ok THEN ExecCall(n, cond)
  ELSE IF Truth(ResultType(n.fn), cond.val)
  THEN ExecCall(n.body[1],
                CallFunc(funcs[n.body[1].fn].recv, n.body[1].fn, n.body[1].key, n.body[1].a))
  ELSE /\ call' = Called(n.fn, n.key, n.a, cond)
       /\ node' = node + 1
       /\ UNCHANGED <<buf, pc, rt>>

\* RenderTemplate, line 518: Execute on {{if ...}}...{{end}}
ExecIf ==
  /\ pc = "exec"
  /\ node <= Len(tmpl.nodes)
  /\ tmpl.nodes[node].t = "if"
  /\ IfStep(tmpl.nodes[node],
            CallFunc(funcs[tmpl.nodes[node].fn].recv, tmpl.nodes[node].fn,
                     tmpl.nodes[node].key, tmpl.nodes[node].a))
  /\ UNCHANGED <<env, args, environ, idx, envMap, tmpl, funcs, output, err>>
  /\ UNCHANGED <<osVars, ioVars>>

\* Execute on {{fileExistOrDefault "dst" "default"}}: the call works on the
\* file system, whatever becomes of the render
FileStep(n, left) ==
  /\ ExecCall(n, left.res)
  /\ fs' = left.fs
  /\ syscalls' = syscalls \o left.ops

\* RenderTemplate, line 518: Execute on a call of fileExistOrDefault
ExecFileExistOrDefault ==
  /\ pc = "exec"
  /\ node <= Len(tmpl.nodes)
  /\ tmpl.nodes[node].t = "call"
  /\ tmpl.nodes[node].fn = "fileExistOrDefault"
  /\ FileStep(tmpl.nodes[node],
              fileExistOrDefault(fs, umask, tmpl.nodes[node].a[1], tmpl.nodes[node].a[2]))
  /\ UNCHANGED <<env, args, environ, idx, envMap, tmpl, funcs, output, err>>
  /\ UNCHANGED <<umask, ioVars>>

NextTemplate ==
  \/ Bind \/ Parse
  \/ ExecNode \/ ExecField \/ ExecIf \/ ExecFileExistOrDefault
  \/ ExecEnd

SpecTemplate == InitTemplate /\ [][NextTemplate]_vars

-----------------------------------------------------------------------------
(* Properties of the accessor layer (checked under SpecAcc)                *)

OrFns == {"asStringOr", "asBoolOr", "asIntOr", "asFloatOr", "asPortOr"}

RequiredFns == {"asString", "asStringSlice", "asStringSliceTrim", "asBool", "asInt",
                "asIntSlice", "asFloat", "asFloatSlice", "asURL", "asHostPort", "asPort"}

\* the boolean spellings as the specification lists them
SpecTrue == {<<"t","r","u","e">>, <<"1">>, <<"y","e","s">>, <<"o","n">>, <<"e","n","a","b","l","e">>, <<"e","n","a","b","l","e","d">>}

SpecFalse == {<<"f","a","l","s","e">>, <<"0">>, <<"n","o">>, <<"o","f","f">>, <<"d","i","s","a","b","l","e">>, <<"d","i","s","a","b","l","e","d">>}

InPortRange(n) == n >= 1 /\ n <= 65535

\* the value v is not of the type the accessor fn reads
Malformed(fn, v) ==
  CASE fn \in {"asString", "asStringOr"} -> FALSE
    [] fn \in {"asBool", "asBoolOr"} -> ToLower(v) \notin SpecTrue \cup SpecFalse
    [] fn \in {"asInt", "asIntOr"} -> ~Atoi(v).ok
    [] fn \in {"asFloat", "asFloatOr"} -> ~ParseFloat(v).ok
    [] fn \in {"asPort", "asPortOr"} -> ~Atoi(v).ok \/ ~InPortRange(Atoi(v).val)

\* the call's key is missing or holds a malformed value
MissingOrMalformed == ~Has(env, call.key) \/ Malformed(call.fn, env[call.key])

\* C1 as stated: every defaulted accessor returns a value, whatever the
\* default, and the default itself when the key is missing or malformed.
C1_OrNeverFails ==
  call.fn \in OrFns =>
    /\ call.res.ok
    /\ MissingOrMalformed => call.res.val = call.a[1]

\* C1, amended: every defaulted accessor other than AsPortOr, and AsPortOr
\* with a default within 1..65535, returns a value and never signals failure;
\* when the key is missing or its value is malformed the value returned is
\* the caller's default unchanged.
C1_OrNeverFailsInRange ==
  (call.fn \in OrFns /\ (call.fn = "asPortOr" => InPortRange(call.a[1]))) =>
    /\ call.res.ok
    /\ MissingOrMalformed => call.res.val = call.a[1]

\* AsPortOr fell back to its default for a port that is out of range
C1_Witness ==
  /\ call.fn = "asPortOr" /\ call.a[1] = 8080
  /\ Has(env, call.key) /\ env[call.key] = <<"6","5","5","3","6">>
  /\ call.res = Ok(8080)

\* every element of the list v split on delimiter d parses with Atoi / ParseFloat
AllInts(v, d) == \A i \in 1..Len(Split(v, d)) : Atoi(TrimSpace(Split(v, d)[i])).ok

AllFloats(v, d) == \A i \in 1..Len(Split(v, d)) : ParseFloat(TrimSpace(Split(v, d)[i])).ok

\* the value v is of the type the Required accessor fn reads
WellFormed(fn, v, a) ==
  CASE fn \in {"asString", "asStringSlice", "asStringSliceTrim"} -> TRUE
    [] fn \in {"asBool", "asInt", "asFloat", "asPort"} -> ~Malformed(fn, v)
    [] fn = "asIntSlice" -> AllInts(v, a[1])
    [] fn = "asFloatSlice" -> AllFloats(v, a[1])
    [] fn = "asURL" -> ParseRequestURI(v).ok /\ ParseRequestURI(v).val.Scheme # <<>>
    [] fn = "asHostPort" ->
         /\ ParseRequestURI(<<"h","t","t","p",":","/","/">> \o v).ok
         /\ Atoi(URLPort(ParseRequestURI(<<"h","t","t","p",":","/","/">> \o v).val)).ok
         /\ InPortRange(Atoi(URLPort(ParseRequestURI(<<"h","t","t","p",":","/","/">> \o v).val)).val)

\* C2: a Required accessor called with a key that is absent signals failure,
\* and whenever it returns, the key is present and its value well-formed: no
\* zero value stands in for a missing or malformed one (a URL, a host:port
\* and a port returned are never the zero value).
C2_RequiredFailsOrValid ==
  call.fn \in RequiredFns =>
    /\ ~Has(env, call.key) => ~call.res.ok
    /\ call.res.ok => Has(env, call.key) /\ WellFormed(call.fn, env[call.key], call.a)
    /\ call.res.ok /\ call.fn \in {"asURL", "asHostPort"} => call.res.val # <<>>
    /\ call.res.ok /\ call.fn = "asPort" => call.res.val # 0

\* a Required accessor was called with an absent key and signalled failure
C2_Witness ==
  /\ call.fn = "asIntSlice"
  /\ ~Has(env, call.key)
  /\ ~call.res.ok

\* C4: for a value whose lowercase form is a true spelling AsBool and
\* AsBoolOr return true, for a false spelling false; for any other value
\* AsBool signals failure and AsBoolOr returns its default.
C4_BoolSpellings ==
  (call.fn \in {"asBool", "asBoolOr"} /\ Has(env, call.key)) =>
    LET w == ToLower(env[call.key])
    IN /\ w \in SpecTrue => call.res = Ok(TRUE)
       /\ w \in SpecFalse => call.res = Ok(FALSE)
       /\ w \notin SpecTrue \cup SpecFalse =>
            IF call.fn = "asBool" THEN ~call.res.ok ELSE call.res = Ok(call.a[1])

\* AsBool read a spelling in mixed case
C4_Witness ==
  /\ call.fn = "asBool"
  /\ Has(env, call.key) /\ env[call.key] = <<"o","N">>
  /\ call.res = Ok(TRUE)

\* C5: AsPort returns n exactly when the key is present and its value is a
\* base-10 integer n with 1 <= n <= 65535, and signals failure otherwise;
\* every value AsPort or AsPortOr returns lies in 1..65535.
C5_PortRange ==
  /\ call.fn = "asPort" =>
       /\ call.res.ok <=> (Has(env, call.key) /\ ~Malformed("asPort", env[call.key]))
       /\ call.res.ok => call.res.val = Atoi(env[call.key]).val
  /\ (call.fn \in {"asPort", "asPortOr"} /\ call.res.ok) => InPortRange(call.res.val)

\* AsPort refused 65536
C5_Witness ==
  /\ call.fn = "asPort"
  /\ Has(env, call.key) /\ env[call.key] = <<"6","5","5","3","6">>
  /\ ~call.res.ok

\* C6: AsPortOr called with a default outside 1..65535 signals failure
\* whatever the Environment and the key hold.
C6_BadDefaultFails ==
  (call.fn = "asPortOr" /\ ~InPortRange(call.a[1])) => ~call.res.ok

\* AsPortOr failed on its default although the key holds a valid port
C6_Witness ==
  /\ call.fn = "asPortOr" /\ call.a[1] = 65536
  /\ Has(env, call.key) /\ env[call.key] = <<"8","0">>
  /\ ~call.res.ok

\* the Required accessor of the same family as the defaulted accessor fn
RequiredOf(fn, e, key) ==
  CASE fn = "asStringOr" -> AsString(e, key)
    [] fn = "asBoolOr" -> AsBool(e, key)
    [] fn = "asIntOr" -> AsInt(e, key)
    [] fn = "asFloatOr" -> AsFloat(e, key)
    [] fn = "asPortOr" -> AsPort(e, key)

\* C7: in each family with both variants (Port with a default in range), if
\* the Required accessor succeeds with v the defaulted accessor returns v
\* whatever the default, and if it fails the defaulted one returns the default.
C7_OrAgreesWithRequired ==
  (call.fn \in OrFns /\ (call.fn = "asPortOr" => InPortRange(call.a[1]))) =>
    IF RequiredOf(call.fn, env, call.key).ok
    THEN call.res = Ok(RequiredOf(call.fn, env, call.key).val)
    ELSE call.res = Ok(call.a[1])

\* AsFloatOr returned the parsed value, which is not its default
C7_Witness ==
  /\ call.fn = "asFloatOr"
  /\ AsFloat(env, call.key).ok
  /\ call.res.ok /\ call.res.val # call.a[1]

\* the index of the first element of els that is no integer once trimmed
FirstBad(els) ==
  CHOOSE i \in 1..Len(els) :
    /\ ~Atoi(TrimSpace(els[i])).ok
    /\ \A j \in 1..(i - 1) : Atoi(TrimSpace(els[j])).ok

\* C8: AsIntSlice splits the value on the delimiter, trims each element and
\* parses it in base 10; it returns the integers in their order when every
\* element parses, and otherwise fails on the first element that does not
\* parse (an empty one included), returning no list.
C8_IntSlice ==
  (call.fn = "asIntSlice" /\ Has(env, call.key)) =>
    LET els == Split(env[call.key], call.a[1])
    IN IF \A i \in 1..Len(els) : Atoi(TrimSpace(els[i])).ok
       THEN /\ call.res.ok
            /\ Len(call.res.val) = Len(els)
            /\ \A i \in 1..Len(els) : call.res.val[i] = Atoi(TrimSpace(els[i])).val
       ELSE /\ ~call.res.ok
            /\ "val" \notin DOMAIN call.res
            /\ call.res.err.a[2] = TrimSpace(els[FirstBad(els)])

\* AsIntSlice failed on "7, invalid, 9"
C8_Witness ==
  /\ call.fn = "asIntSlice" /\ call.a[1] = <<",">>
  /\ Has(env, call.key)
  /\ env[call.key] = <<"7",","," ","i","n","v","a","l","i","d",","," ","9">>
  /\ ~call.res.ok


\* C11: no accessor call, succeeding or failing, All, SortAll and
\* AsStringSliceTrim included, changes the Environment: after any sequence of
\* calls it holds the pairs it was constructed with.
C11_EnvironmentUnchanged == [][env' = env]_vars

\* AsStringSliceTrim returned trimmed elements of a value that is still in
\* the Environment as it was
C11_Witness ==
  /\ call.fn = "asStringSliceTrim"
  /\ call.res.ok
  /\ call.res.val # Split(env[call.key], call.a[1])

\* the non-overlapping occurrences of sep in s from position i on, counted
\* left to right
RECURSIVE Occurrences(_, _, _)
Occurrences(s, sep, i) ==
  IF i + Len(sep) - 1 > Len(s) THEN 0
  ELSE IF HasPrefixAt(s, i, sep) THEN 1 + Occurrences(s, sep, i + Len(sep))
  ELSE Occurrences(s, sep, i + 1)

\* y is x without its leading and trailing characters of the cut set
Stripped(x, y, cutset) ==
  /\ \E i \in 1..(Len(x) + 1), j \in 0..Len(x) :
       /\ y = Slice(x, i, j)
       /\ \A k \in 1..(i - 1) : x[k] \in Range(cutset)
       /\ \A k \in (j + 1)..Len(x) : x[k] \in Range(cutset)
  /\ Len(y) > 0 => (y[1] \notin Range(cutset) /\ y[Len(y)] \notin Range(cutset))

\* C22: for a present key and a non-empty delimiter AsStringSlice returns the
\* pieces of the raw value in their order: one more than the delimiter has
\* non-overlapping occurrences, and joined with the delimiter they give the
\* raw value back.  AsStringSliceTrim returns as many elements in the same
\* order, each the element of AsStringSlice without its leading and trailing
\* characters of the cut set.
C22_SplitJoin ==
  (call.fn \in {"asStringSlice", "asStringSliceTrim"} /\ Has(env, call.key)
     /\ Len(call.a[1]) > 0) =>
    /\ call.res.ok
    /\ Len(call.res.val) = Occurrences(env[call.key], call.a[1], 1) + 1
    /\ call.fn = "asStringSlice" =>
         JoinWith(call.res.val, call.a[1]) = env[call.key]
    /\ call.fn = "asStringSliceTrim" =>
         LET pieces == AsStringSlice(env, call.key, call.a[1]).val
         IN /\ Len(call.res.val) = Len(pieces)
            /\ \A i \in 1..Len(pieces) : Stripped(pieces[i], call.res.val[i], call.a[2])

\* "7, invalid, 9" split at "," and trimmed of spaces
C22_Witness ==
  /\ call.fn = "asStringSliceTrim" /\ call.a = <<<<",">>, <<" ">>>>
  /\ Has(env, call.key)
  /\ env[call.key] = <<"7",","," ","i","n","v","a","l","i","d",","," ","9">>
  /\ call.res = Ok(<<<<"7">>, <<"i","n","v","a","l","i","d">>, <<"9">>>>)

\* C23: All returns the full mapping of the Environment; SortAll returns a
\* mapping with the same keys and the same value for each key, whose keys
\* come in ascending lexical order.
C23_AllAndSortAll ==
  /\ call.fn = "all" => call.res = Ok(env)
  /\ call.fn = "sortAll" =>
       /\ call.res.ok
       /\ DOMAIN call.res.val = DOMAIN env
       /\ \A k \in DOMAIN env : call.res.val[k] = env[k]
  /\ call.fn = "range" =>
       /\ Range(call.res.val) = DOMAIN env
       /\ \A i \in 1..Len(call.res.val), j \in 1..Len(call.res.val) :
            i < j => Less(call.res.val[i], call.res.val[j])

\* the type a failure message names, by its wording
TypeNamed(format) ==
  CASE format = "could not parse '%s' (value: '%s') as boolean" -> {"boolean"}
    [] format = "could not parse '%s' (value: '%s') as URL: %v" -> {"URL"}
    [] format = "could not parse '%s' (value: '%s') as integer: %v" -> {"integer"}
    [] format = "on key '%s', could not parse '%s' as integer: %v" -> {"integer"}
    [] format = "could not parse '%s' (value: '%s') as float: %v" -> {"float"}
    [] format = "port '%s' (value: '%s') is out of range (1-65535)" -> {"port"}
    [] OTHER -> {}

\* the words that name the type of an accessor (a port is an integer, and
\* AsHostPort takes the value for the host and port of a URL)
OwnTypes(fn) ==
  CASE fn = "asString" -> {"string"}
    [] fn = "asBool" -> {"boolean"}
    [] fn \in {"asInt", "asIntSlice"} -> {"integer"}
    [] fn \in {"asFloat", "asFloatSlice"} -> {"float"}
    [] fn = "asURL" -> {"URL"}
    [] fn = "asHostPort" -> {"URL", "port", "host:port"}
    [] fn = "asPort" -> {"port", "integer"}

TypedFns == {"asString", "asBool", "asInt", "asIntSlice", "asFloat", "asFloatSlice",
             "asURL", "asHostPort", "asPort"}

\* C26: every failure of a Required accessor, for a missing key, a malformed
\* value or a value out of range, carries the name of the key and names the
\* type attempted, which is the accessor's own; a parse failure carries the
\* diagnostic of the parse as well.
C26_FailureNamesKeyAndType ==
  (call.fn \in TypedFns /\ ~call.res.ok) =>
    /\ call.res.err.a[1] = call.key
    /\ TypeNamed(call.res.err.format) # {}
    /\ TypeNamed(call.res.err.format) \subseteq OwnTypes(call.fn)
    /\ (call.fn = "asInt" /\ Has(env, call.key)) =>
         call.res.err.a[3] = Atoi(env[call.key]).err
    /\ (call.fn = "asFloat" /\ Has(env, call.key)) =>
         call.res.err.a[3] = ParseFloat(env[call.key]).err

\* what "http://" and the value parse to
AsHTTP(v) == ParseRequestURI(<<"h","t","t","p",":","/","/">> \o v)

\* the URL carries a port that is an integer in 1..65535
CarriesPort(u) ==
  /\ Len(URLPort(u)) > 0
  /\ \A i \in 1..Len(URLPort(u)) : IsDigit(URLPort(u)[i])
  /\ Atoi(URLPort(u)).ok
  /\ InPortRange(Atoi(URLPort(u)).val)

\* C27: AsHostPort puts "http://" before the value and succeeds exactly when
\* the result parses and carries a port that is an integer in 1..65535; it
\* then returns the host:port part of the value.  It fails for a missing
\* key, a value that does not parse, a value without a port and a port out
\* of range.
C27_HostPort ==
  call.fn = "asHostPort" =>
    IF Has(env, call.key) /\ AsHTTP(env[call.key]).ok
         /\ CarriesPort(AsHTTP(env[call.key]).val)
    THEN /\ call.res.ok
         /\ call.res.val = AsHTTP(env[call.key]).val.Host
         /\ \E i \in 1..Len(call.res.val) :
              /\ call.res.val[i] = ":"
              /\ Slice(call.res.val, i + 1, Len(call.res.val))
                   = URLPort(AsHTTP(env[call.key]).val)
    ELSE ~call.res.ok

\* "u@h:80" gave "h:80"
C27_Witness ==
  /\ call.fn = "asHostPort" /\ Has(env, call.key)
  /\ env[call.key] = <<"u","@","h",":","8","0">>
  /\ call.res = Ok(<<"h",":","8","0">>)

\* "h" carries no port and "h:65536" one out of range: both calls failed
C27_WitnessFailure ==
  /\ call.fn = "asHostPort" /\ Has(env, call.key)
  /\ env[call.key] \in {<<"h">>, <<"h",":","6","5","5","3","6">>}
  /\ ~call.res.ok

-----------------------------------------------------------------------------
(* Properties of Run and RenderTemplate (checked under Spec)               *)

\* C3: whenever RenderTemplate or Run returns an error, the text returned
\* with it is empty, whatever Execute had written to the buffer.
C3_ErrorMeansEmptyText ==
  /\ (pc \in {"rendered", "done"} /\ rt # NoReturn /\ rt.err # NoErr) => rt.text = <<>>
  /\ (pc = "done" /\ err # NoErr) => output = <<>>

\* Run returned an execution error after Execute had written to the buffer
C3_Witness ==
  /\ pc = "done"
  /\ err.kind = "error rendering template"
  /\ err.cause.kind = "error executing template"
  /\ buf # <<>>
  /\ output = <<>>

HasEq(e) == \E i \in 1..Len(e) : e[i] = "="

FirstEq(e) == CHOOSE i \in 1..Len(e) : e[i] = "=" /\ \A j \in 1..(i - 1) : e[j] # "="

KeyOf(e) == SubSeq(e, 1, FirstEq(e) - 1)

ValueOf(e) == SubSeq(e, FirstEq(e) + 1, Len(e))

\* the entries among the first n of environ that hold an '=' with key k
EntriesOf(k, n) == {i \in 1..n : HasEq(environ[i]) /\ KeyOf(environ[i]) = k}

LastOf(S) == CHOOSE i \in S : \A j \in S : j <= i

\* the map m is what the first n entries of environ contribute: the keys are
\* the texts before the first '=' of the entries holding one, and a key's
\* value is the remainder of the last entry with that key
Contributed(m, n) ==
  /\ \A k \in DOMAIN m : EntriesOf(k, n) # {}
  /\ \A i \in 1..n : HasEq(environ[i]) => KeyOf(environ[i]) \in DOMAIN m
  /\ \A k \in DOMAIN m : m[k] = ValueOf(environ[LastOf(EntriesOf(k, n))])

C10_KeysNonEmpty ==
  /\ \A k \in DOMAIN envMap : k # <<>>
  /\ pc \in {"read", "bind", "parse", "exec", "rendered"} => \A k \in DOMAIN env : k # <<>>

\* C12 as stated: for every argument list of a length other than 2 Run
\* returns a usage error, with no template file read, parsed or executed.
C12_UsageError ==
  (Len(args) # 2 /\ pc # "start") =>
    /\ pc = "done"
    /\ err.kind = "usage" /\ output = <<>>
    /\ tmpl = NoTemplate /\ funcs = <<>> /\ node = 0 /\ buf = <<>> /\ rt = NoReturn

\* the names of the namespace as the specification lists them
FixedNames ==
  {"all", "sortAll", "asString", "asStringOr", "asStringSlice",
   "asStringSliceTrim", "asBool", "asBoolOr", "asInt", "asIntOr",
   "asIntSlice", "asFloat", "asFloatOr", "asFloatSlice", "asPort",
   "asPortOr", "asURL", "asHostPort", "contains", "containsAny",
   "containsCaseInsensitive", "hasPrefix", "hasSuffix", "toLower", "toUpper",
   "trim", "trimLeft", "trimRight", "trimSpace", "isEmpty",
   "isNotEmpty", "base64Encode", "base64Decode", "hash", "sequence",
   "fileExistOrDefault"}

\* the accessors among them
FixedAccessors ==
  {"all", "sortAll", "asString", "asStringOr", "asStringSlice",
   "asStringSliceTrim", "asBool", "asBoolOr", "asInt", "asIntOr",
   "asIntSlice", "asFloat", "asFloatOr", "asFloatSlice", "asPort",
   "asPortOr", "asURL", "asHostPort"}

\* C13: whatever the Environment, the namespace GetTemplateFunctions returns
\* has exactly the 36 fixed names, and every accessor in it reads the
\* Environment passed to that call: what a template gets from an accessor is
\* what the accessor returns on that Environment.
C13_FixedNamespace ==
  funcs # <<>> =>
    /\ DOMAIN funcs = FixedNames
    /\ Cardinality(DOMAIN funcs) = 36
    /\ \A n \in FixedAccessors : funcs[n].method /\ funcs[n].recv = env
    /\ \A n \in FixedNames \ FixedAccessors : ~funcs[n].method
    /\ call # NoCall => call.res = CallFunc(env, call.fn, call.key, call.a)

\* a template read a key of a non-empty Environment through the namespace
C13_Witness ==
  /\ funcs # <<>>
  /\ call.fn = "asString" /\ call.res.ok
  /\ call.res.val = env[call.key]
  /\ call.res.val # <<>>

-----------------------------------------------------------------------------
(* Properties of the utilities (checked under SpecUtil)                    *)

\* C14 as stated: for start <= end sequence returns end-start+1 elements, the
\* i-th (from 0) being start+i; for start > end it returns the empty sequence
\* and does not fail.
C14_Sequence ==
  call.fn = "sequence" =>
    IF call.a[1] <= call.a[2]
    THEN /\ call.res.ok
         /\ Len(call.res.val) - 1 = call.a[2] - call.a[1]
         /\ \A i \in 1..Len(call.res.val) : call.res.val[i] = call.a[1] + (i - 1)
    ELSE call.res = Ok(<<>>)

\* C28: for every pair of machine integers with start <= end, end the largest
\* integer and ranges longer than the largest integer included, sequence
\* returns without failure: neither the length nor the loop counter wraps.
C28_SequenceNeverWraps ==
  (call.fn = "sequence" /\ call.a[1] <= call.a[2]) => call.res.ok

\* C15: base64Encode never fails, its result is four characters for every
\* three bytes begun, and base64Decode of it returns the string encoded.
C15_Base64RoundTrip ==
  call.fn = "base64Encode" =>
    /\ call.res.ok
    /\ Len(call.res.val) = 4 * ((Len(call.a[1]) + 2) \div 3)
    /\ base64Decode(call.res.val) = Ok(call.a[1])

\* base64Encode encoded four bytes, one of them 255, into two quanta
C15_Witness ==
  /\ call.fn = "base64Encode"
  /\ call.a[1] = <<"a", "xff", "x00", "a">>
  /\ Len(call.res.val) = 8
  /\ base64Decode(call.res.val).ok

\* the algorithm names as the specification lists them
SpecAlgorithms == {<<"m","d","5">>, <<"s","h","a","1">>, <<"s","h","a","2","2","4">>, <<"s","h","a","2","5","6">>, <<"s","h","a","5","1","2">>}

\* C16: hash succeeds exactly when the lowercase form of the algorithm name is
\* md5, sha1, sha224, sha256 or sha512; its result is then not empty and is
\* the one hash gives for the same input and the lowercase name; for any other
\* name it signals a fatal condition whatever the input.
C16_Hash ==
  call.fn = "hash" =>
    IF ToLower(call.a[2]) \in SpecAlgorithms
    THEN /\ call.res.ok
         /\ call.res.val.len > 0
         /\ call.res = hash(call.a[1], ToLower(call.a[2]))
    ELSE ~call.res.ok

\* hash took SHA256 for sha256
C16_Witness ==
  /\ call.fn = "hash"
  /\ call.a[2] = <<"S","H","A","2","5","6">>
  /\ call.res.ok
  /\ call.res.val.hex.sum = "sha256.Sum256"

-----------------------------------------------------------------------------
(* Properties of fileExistOrDefault (checked under SpecFile)               *)

\* this step is a call fileExistOrDefault(destination, defaultPath)
IsFileCall(destination, defaultPath) ==
  /\ call = NoCall
  /\ call'.fn = "fileExistOrDefault"
  /\ call'.a = <<destination, defaultPath>>

\* C17: when the destination exists, fileExistOrDefault reports success and
\* changes nothing: the destination keeps its contents and mode, and the only
\* file system call is the stat of the destination, so that the default is
\* never read and may as well not exist.
C17_ExistingIsNoOp ==
  [][\A d \in PathPool, p \in PathPool :
       (IsFileCall(d, p) /\ fs[d] # NoEntry) =>
         /\ call'.res = Ok(TRUE)
         /\ fs' = fs
         /\ syscalls' = <<Syscall("stat", d)>>]_vars

\* the call succeeded on an existing destination with no default to copy
C17_Witness ==
  /\ call.fn = "fileExistOrDefault"
  /\ call.a = <<Destination, DefaultPath>>
  /\ fs[Destination] = RegularFile(Old, {"ur", "uw"})
  /\ fs[DefaultPath] = NoEntry
  /\ call.res = Ok(TRUE)

\* the default at path p can be read and a destination can be created
CanCopy(p) ==
  /\ fs[p] # NoEntry /\ fs[p].kind = "file" /\ "ur" \in fs[p].perm
  /\ "uw" \in fs[Dir].perm

\* C18 as stated: when the destination does not exist, the default can be
\* read and the destination written, fileExistOrDefault reports success and
\* the destination then exists with the contents and the permission bits of
\* the default, which is unchanged.
C18_CopyKeepsContentsAndMode ==
  [][\A d \in PathPool, p \in PathPool :
       (IsFileCall(d, p) /\ fs[d] = NoEntry /\ CanCopy(p)) =>
         /\ call'.res = Ok(TRUE)
         /\ fs'[d].kind = "file"
         /\ fs'[d].data = fs[p].data
         /\ fs'[d].perm = fs[p].perm
         /\ fs'[p] = fs[p]]_vars

\* C19: when the destination does not exist and the default cannot be
\* stat-ed or opened, fileExistOrDefault signals a fatal condition and the
\* destination still does not exist (nothing in the file system has changed).
C19_UnreadableDefaultIsFatal ==
  [][\A d \in PathPool, p \in PathPool :
       (IsFileCall(d, p) /\ fs[d] = NoEntry /\ (fs[p] = NoEntry \/ "ur" \notin fs[p].perm)) =>
         /\ ~call'.res.ok
         /\ fs'[d] = NoEntry
         /\ fs' = fs]_vars

\* the call failed on a default that exists and cannot be opened; there is
\* no destination
C19_Witness ==
  /\ call.fn = "fileExistOrDefault"
  /\ call.a = <<Destination, DefaultPath>>
  /\ ~call.res.ok
  /\ fs[Destination] = NoEntry
  /\ fs[DefaultPath] # NoEntry /\ "ur" \notin fs[DefaultPath].perm
  /\ syscalls[Len(syscalls)] = Syscall("open", DefaultPath)

\* a call that reported success left the destination in being, holding what
\* it held before the calls (Old, in the file systems of the pool) or all of
\* what the default file holds
SuccessLeaves ==
  (call.fn = "fileExistOrDefault" /\ call.a = <<Destination, DefaultPath>> /\ call.res.ok) =>
    /\ fs[Destination] # NoEntry
    /\ fs[Destination].kind = "file"
    /\ \/ fs[Destination].data = Old
       \/ (fs[DefaultPath] # NoEntry /\ fs[DefaultPath].kind = "file"
             /\ fs[Destination].data = fs[DefaultPath].data)

\* C30: over any sequence of calls of fileExistOrDefault on one destination,
\* whatever fails on the way: whenever a call reports success the destination
\* exists afterwards and holds either the contents it had before the first
\* call or a complete copy of the default's contents; and a call on a
\* destination that a successful call has left is a no-op reporting success.
C30_SuccessMeansIntact ==
  /\ []SuccessLeaves
  /\ [][(IsFileCall(Destination, DefaultPath) /\ fs[Destination] # NoEntry) =>
          (call'.res = Ok(TRUE) /\ fs' = fs)]_vars

-----------------------------------------------------------------------------
(* Properties of the program run (checked under SpecFair)                  *)

\* Run has returned text and no error
RunSucceeded == pc \in {"done", "printed", "exit"} /\ rt.err = NoErr /\ err = NoErr

\* the outcome of a run that succeeded
ExitedWithOutput ==
  /\ exit = <<0>>
  /\ RunSucceeded
  /\ stdout = output \o <<"\n">>
  /\ stderr = <<>>

\* the outcome of a run that failed
ExitedWithDiagnostic ==
  /\ exit # <<>> /\ exit[1] # 0
  /\ ~RunSucceeded
  /\ stdout = <<>>
  /\ stderr # <<>>

\* C20: every run of the program ends, and ends in one of two ways: Run
\* succeeded, standard output holds the rendered text (and the newline
\* Fprintln adds) and the exit status is 0; or Run failed, standard output
\* holds nothing, standard error holds a diagnostic and the exit status is
\* not 0.  Nothing is written to standard output before Run has returned
\* successfully.
C20_OneOutcome ==
  /\ [](stdout # <<>> => RunSucceeded)
  /\ [](exit # <<>> => (ExitedWithOutput /\ ~ExitedWithDiagnostic)
                         \/ (ExitedWithDiagnostic /\ ~ExitedWithOutput))
  /\ <>(exit # <<>>)

\* a run that rendered "Hello World" has exited with status 0
C20_Witness ==
  /\ exit = <<0>>
  /\ stdout = <<"H","e","l","l","o"," ","W","o","r","l","d","\n">>
  /\ stderr = <<>>

\* a run whose template failed in Execute after it had written to the buffer
\* has exited with status 1 and nothing on standard output
C20_WitnessFailure ==
  /\ exit = <<1>>
  /\ buf # <<>>
  /\ stdout = <<>>
  /\ stderr # <<>>


-----------------------------------------------------------------------------
(* Properties of RenderTemplate (checked under SpecTemplate)               *)

\* C21: the Environment is the data of the template: for every key K it
\* holds, the field {{.K}} renders the text {{asString "K"}} renders, the raw
\* value of K
C21_FieldIsRawValue ==
  (call.fn = "." /\ Has(env, call.key)) =>
    /\ call.res.ok
    /\ call.res = AsString(env, call.key)
    /\ call.res.val = env[call.key]

StepOrder ==
  /\ pc = "bind" => pc' = "parse"
  /\ pc = "parse" => pc' \in {"exec", "rendered"}
  /\ pc = "exec" => pc' \in {"exec", "rendered"}
  /\ pc # "rendered"

\* the one outcome RenderTemplate ends in
Outcome ==
  pc = "rendered" =>
    /\ funcs = GetTemplateFunctions(env)
    /\ IF ~tmpl.wellFormed
       THEN /\ rt = [text |-> <<>>, err |-> [kind |-> "error parsing template"]]
            /\ call = NoCall /\ buf = <<>> /\ syscalls = <<>>
       ELSE IF ~call.res.ok
       THEN /\ rt.text = <<>>
            /\ rt.err = [kind |-> "error executing template", cause |-> call.res.err]
       ELSE /\ rt = [text |-> buf, err |-> NoErr]
            /\ node = Len(tmpl.nodes) + 1

ValueOfCall(n) == CallFunc(env, n.fn, n.key, n.a)

\* a failure ends the render, and a render that fails in execution ends on
\* the call that failed
FailsWhenEvaluated ==
  /\ (call # NoCall /\ ~call.res.ok) =>
       (pc = "rendered" /\ rt.err = [kind |-> "error executing template", cause |-> call.res.err])
  /\ (pc = "rendered" /\ tmpl.wellFormed /\ rt.err # NoErr) =>
       (call # NoCall /\ ~call.res.ok)

\* Execute on {{if c}}{{b}}{{end}}: b is evaluated when c is true and
\* only then; with c false Execute goes on, whatever b would have given
BranchStep(n) ==
  (pc = "exec" /\ n.t = "if" /\ ValueOfCall(n).ok) =>
    IF ValueOfCall(n).val
    THEN /\ call' = Called(n.body[1].fn, n.body[1].key, n.body[1].a, ValueOfCall(n.body[1]))
         /\ (pc' = "rendered") = ~ValueOfCall(n.body[1]).ok
    ELSE /\ call' = Called(n.fn, n.key, n.a, ValueOfCall(n))
         /\ pc' = "exec" /\ node' = node + 1 /\ buf' = buf /\ rt' = rt

\* C25: an accessor is evaluated only when execution reaches it: a Required
\* accessor on a missing or malformed key fails the render if and only if it
\* is evaluated; in a branch that is not taken it is not, and the render
\* succeeds.
C25_EvaluatedWhenReached ==
  /\ []FailsWhenEvaluated
  /\ [][node >= 1 /\ node <= Len(tmpl.nodes) => BranchStep(tmpl.nodes[node])]_vars

\* a render succeeded on a template whose {{if}} guards asInt of a missing key
C25_Witness ==
  /\ pc = "rendered" /\ rt.err = NoErr
  /\ \E i \in 1..Len(tmpl.nodes) :
       /\ tmpl.nodes[i].t = "if"
       /\ tmpl.nodes[i].body[1].fn = "asInt"
       /\ ~Has(env, tmpl.nodes[i].body[1].key)
       /\ ~ValueOfCall(tmpl.nodes[i].body[1]).ok

\* the nodes before the one Execute stands at call fileExistOrDefault for d
CalledBefore(d) ==
  \E j \in 1..(node - 1) :
    tmpl.nodes[j].fn = "fileExistOrDefault" /\ tmpl.nodes[j].a[1] = d

\* the node Execute stands at does
CalledNow(d) ==
  tmpl.nodes[node].fn = "fileExistOrDefault" /\ tmpl.nodes[node].a[1] = d

\* a render that failed left the copies made before the failure in place, and
\* what only later calls name untouched
AfterFailure ==
  (pc = "rendered" /\ tmpl.wellFormed /\ ~call.res.ok) =>
    /\ rt.text = <<>> /\ rt.err # NoErr
    /\ \A d \in {Destination, Other} :
         IF CalledBefore(d)
         THEN fs[d] = RegularFile(Seed, fs[DefaultPath].perm \ umask)
         ELSE CalledNow(d)
                \/ (fs[d] = NoEntry /\ \A i \in 1..Len(syscalls) : syscalls[i].path # d)

\* C29: once a function call has signalled a fatal condition no later call is
\* evaluated: a fileExistOrDefault placed after the failing call never touches
\* the file system, while the files that calls before the failure copied stay
\* in place although the render returns no text.
C29_NothingAfterFailure ==
  /\ []AfterFailure
  /\ [][call.res.ok]_vars

\* asString failed between two calls of fileExistOrDefault: the first copy is
\* there, the second was never made
C29_Witness ==
  /\ pc = "rendered" /\ ~call.res.ok /\ call.fn = "asString"
  /\ Len(tmpl.nodes) = 3 /\ node = 2
  /\ tmpl.nodes[1].fn = "fileExistOrDefault" /\ tmpl.nodes[1].a[1] = Destination
  /\ tmpl.nodes[3].fn = "fileExistOrDefault" /\ tmpl.nodes[3].a[1] = Other
  /\ fs[Destination].kind = "file" /\ fs[Destination].data = Seed
  /\ fs[Other] = NoEntry
  /\ rt.text = <<>>

====
